---- MODULE Spec2Model ----
(***************************************************************************)
(* State machine of cvprac's CvpClient (src/cvprac/cvp_client.py): the     *)
(* connection to a pool of CVP nodes, the login on a node, and the retry   *)
(* and failover loops of get/post/delete.                                  *)
(*                                                                         *)
(* Every exchange with the network (a login POST, a request) is one step:  *)
(* its outcome is chosen by the environment, and the step runs the code    *)
(* from that outcome up to the next exchange or up to the return of the    *)
(* call.  pc names the position of the single calling thread.              *)
(***************************************************************************)
EXTENDS Integers, Sequences, FiniteSets, TLC

(* ----------------------------- constants ------------------------------ *)

\* CvpClient.NUM_RETRY_REQUESTS
NUM_RETRY_REQUESTS == 3

\* Longest node list handed to connect().
MaxNodes == 3

None == "None"

\* self.node_cnt before the first connect(): None, a count that no node
\* list has.  No code reads it then: self.session is None until connect().
NoCount == -1

\* Hosts are opaque names.
HostNames == <<"h1", "h2", "h3", "h4", "h5", "h6">>

\* The nodes argument of connect(): a list, possibly empty, of distinct
\* hosts, or the list that names one host twice.
NodeLists ==
    { [i \in 1..n |-> HostNames[i]] : n \in 0..MaxNodes }
    \cup { <<"h1", "h1">> }

\* The api_token / cvaas_token arguments of connect().
Tokens == {None, "tok"}

\* The is_cvaas and tenant arguments of connect(): a tenant is an
\* organisation within CVaaS, given with is_cvaas only.
Deployments ==
    { [is_cvaas |-> FALSE, tenant |-> None],
      [is_cvaas |-> TRUE,  tenant |-> None],
      [is_cvaas |-> TRUE,  tenant |-> "org"] }

(* ------------------------------- texts -------------------------------- *)

\* A text is modelled by the set of the markers the code searches for
\* with "in" that occur in it.  Formatting texts into a message gives the
\* union of their markers (the separators of the format strings keep a
\* marker from straddling two parts).  The search is case sensitive:
\* 'User is unauthorized' does not contain 'Unauthorized'.
UnauthMarkers == {"Unauthorized", "User is unauthorized"}

Text == SUBSET UnauthMarkers

\* The url argument of get/post/delete: whether it holds '/api/', whether
\* it holds '/cvpservice/', whether it holds '/resources/', and its
\* markers.
Urls ==
    { [api |-> FALSE, cvpservice |-> FALSE, resources |-> FALSE,
       text |-> {}],
      [api |-> TRUE,  cvpservice |-> FALSE, resources |-> TRUE,
       text |-> {"Unauthorized"}],
      [api |-> FALSE, cvpservice |-> TRUE,  resources |-> FALSE,
       text |-> {}] }

LogoutUrl ==
    [api |-> FALSE, cvpservice |-> FALSE, resources |-> FALSE, text |-> {}]

\* full_url while _make_request is not in its node loop: not assigned.
NoFullUrl == [host |-> None, prefix |-> <<>>]

\* Mutant of FullUrl: only '/api/' selects the bare host prefix.
FullUrl_ApiMarkerOnly(url, hosted, host) ==
    [host |-> host,
     prefix |-> IF url.api THEN <<>>
                ELSE IF hosted THEN <<"/cvpservice">>
                ELSE <<"/web">>]

\* full_url of _make_request: the host of self.url_prefix_short, and what
\* stands between 'https://host:port' and the url argument.
FullUrl(url, hosted, host) ==
    [host |-> host,
     prefix |-> IF url.api \/ url.cvpservice THEN <<>>
                ELSE IF hosted THEN <<"/cvpservice">>
                ELSE <<"/web">>]

\* The url argument while no request is in progress: there is none.
NoUrl == [none |-> TRUE]

(* ------------------------------ errors -------------------------------- *)

Err(c, m) == [cls |-> c, msg |-> m]

NoErr == Err(None, {})

Ok == Err("OK", {})

\* requests' exceptions that end the attempts on a node at once
TransportErrors == {"ConnectionError", "HTTPError", "TooManyRedirects"}

\* requests' timeouts (ReadTimeout is a subclass of Timeout)
TimeoutErrors == {"ReadTimeout", "Timeout"}

\* The errors of a login that _reset_session catches and returns: one
\* raised by the POST (ConnectionError, HTTPError, TooManyRedirects,
\* ReadTimeout, Timeout) and one raised by _is_good_response (CvpApiError,
\* CvpRequestError, CvpSessionLogOutError); a single except clause handles
\* them all.
CaughtLoginErrors == {"ConnectionError", "CvpSessionLogOutError"}

\* What a login raises that _reset_session does not catch: the
\* configuration error of _login, and response.json()['sessionId'] on a
\* good response that holds no session id.
UncaughtLoginErrors == {"CvpLoginError", "JSONDecodeError"}

(* ----------------------------- responses ------------------------------ *)

\* A response of the server: its status (ok), its reason, its body text
\* (markers, and whether it holds 'LOG OUT MESSAGE'), whether the decoded
\* body holds a truthy errorCode, and the text of the error message built
\* from errorMessage / errors / errorCode.
Responses ==
    [ok : {FALSE}, reason : Text, text : {{}, {"User is unauthorized"}},
     logout : {FALSE}, errcode : {FALSE}, errmsg : {{}}]
    \cup
    [ok : {TRUE}, reason : {{}}, text : {{}}, logout : BOOLEAN,
     errcode : {FALSE}, errmsg : {{}}]
    \cup
    {[ok |-> TRUE, reason |-> {}, text |-> m, logout |-> FALSE,
      errcode |-> TRUE, errmsg |-> m] : m \in Text}
    \cup
    {[ok |-> TRUE, reason |-> {}, text |-> {}, logout |-> TRUE,
      errcode |-> TRUE, errmsg |-> {}]}

\* What a transport attempt ends with: an exception of requests, or a
\* response.
Exc(c) == [exc |-> c]

NoOutcome == Exc("NoAttempt")

\* What the body of a good response is to the code that follows
\* _send_request: a JSON object whose data is 'success', one with other
\* data, one without a data key, a JSON number or boolean, or text that
\* response.json() rejects for another reason than extra data.
Bodies == {"data_success", "data_other", "no_data", "scalar", "bad_json"}

\* No good response has been received.
NoBody == "none"

Outcomes ==
    {Exc(c) : c \in TransportErrors \cup TimeoutErrors}
    \cup {[exc |-> None, resp |-> r] : r \in Responses}

\* Mutant of IsGoodResponse: both unauthorized markers are looked for in
\* the reason, none in the body text.
IsGoodResponse_ReasonOnly(response, prefix) ==
    IF ~response.ok
    THEN IF response.reason \cap UnauthMarkers # {}
         THEN Err("CvpApiError", prefix \cup response.reason)
         ELSE Err("CvpRequestError",
                  prefix \cup response.reason \cup response.text)
    ELSE IF response.logout
    THEN Err("CvpSessionLogOutError", prefix)
    ELSE IF response.errcode
    THEN Err("CvpApiError", prefix \cup response.errmsg)
    ELSE NoErr

\* _is_good_response: the error it raises, or NoErr.
IsGoodResponse(response, prefix) ==
    IF ~response.ok
    THEN IF "Unauthorized" \in response.reason
         THEN Err("CvpApiError", prefix \cup response.reason)
         ELSE IF "User is unauthorized" \in response.text
         THEN Err("CvpApiError", prefix \cup {"User is unauthorized"})
         ELSE Err("CvpRequestError",
                  prefix \cup response.reason \cup response.text)
    ELSE IF response.logout
    THEN Err("CvpSessionLogOutError", prefix)
    ELSE IF response.errcode
    THEN Err("CvpApiError", prefix \cup response.errmsg)
    ELSE NoErr

\* 'Unauthorized' in error.msg or 'User is unauthorized' in error.msg
IsUnauthorizedMsg(msg) ==
    "Unauthorized" \in msg \/ "User is unauthorized" \in msg

\* Mutant of FinalTry: the final try is recognised one try early.
FinalTry_OneEarly(t) == t + 2 = NUM_RETRY_REQUESTS

\* Mutant of FinalTry: the final try is recognised one try late.
FinalTry_OneLate(t) == t = NUM_RETRY_REQUESTS

\* req_try + 1 == self.NUM_RETRY_REQUESTS
FinalTry(t) == t + 1 = NUM_RETRY_REQUESTS

(* ------------------------- JSON as Python reads it --------------------- *)

\* The characters of a response body are strings of length one.
Quote == "\""

Whitespace == {" ", "\n"}

Digits == <<"0", "1", "2", "3", "4", "5", "6", "7", "8", "9">>

\* A decoded JSON value, as the Python object json gives: t is its type
\* ("null" is None, "num" an int, "str", "list", "dict"); n the number;
\* chars the characters of a string; items the elements of a list or the
\* values of a dict; keys the keys of a dict, in insertion order.
NoneV == [t |-> "null", n |-> 0, chars |-> <<>>, items |-> <<>>, keys |-> <<>>]

NumV(i) == [NoneV EXCEPT !.t = "num", !.n = i]

StrV(cs) == [NoneV EXCEPT !.t = "str", !.chars = cs]

ListV(vs) == [NoneV EXCEPT !.t = "list", !.items = vs]

DictV(ks, vs) == [NoneV EXCEPT !.t = "dict", !.keys = ks, !.items = vs]

\* {'data': v}
DataV(v) == DictV(<<StrV(<<"d", "a", "t", "a">>)>>, <<v>>)

\* What scanning at an index gives: a value and the index after it, or
\* the failure that json reports as JSONDecodeError (a ValueError).
Scanned(v, e) == [ok |-> TRUE, val |-> v, end |-> e]

ScanFailed == [ok |-> FALSE, val |-> NoneV, end |-> 0]

\* s[i] of Python (indices from 0), "" past the end.
At(s, i) == IF i < Len(s) THEN s[i + 1] ELSE ""

\* WHITESPACE.match(s, i).end()
RECURSIVE SkipWhitespace(_, _)
SkipWhitespace(s, i) ==
    IF At(s, i) \in Whitespace THEN SkipWhitespace(s, i + 1) ELSE i

\* The index after the digits that start at i.
RECURSIVE DigitsEnd(_, _)
DigitsEnd(s, i) ==
    IF \E d \in 1..Len(Digits) : Digits[d] = At(s, i)
    THEN DigitsEnd(s, i + 1)
    ELSE i

DigitValue(c) == (CHOOSE d \in 1..Len(Digits) : Digits[d] = c) - 1

\* int() of the digits s[i..e-1].
RECURSIVE IntOf(_, _, _)
IntOf(s, i, e) ==
    IF e <= i THEN 0
    ELSE 10 * IntOf(s, i, e - 1) + DigitValue(At(s, e - 1))

\* The index of the quote that closes the string whose characters start
\* at i, or Len(s) if there is none.
RECURSIVE StringEnd(_, _)
StringEnd(s, i) ==
    IF i >= Len(s) \/ At(s, i) = Quote THEN i ELSE StringEnd(s, i + 1)

\* py_scanstring(s, i): i is the index after the opening quote.
ScanString(s, i) ==
    LET e == StringEnd(s, i) IN
    IF e >= Len(s) THEN ScanFailed
    ELSE Scanned(StrV(SubSeq(s, i + 1, e)), e + 1)

\* dict(pairs): a key that comes again keeps its place and takes the
\* later value.
DictSet(d, k, v) ==
    IF \E j \in 1..Len(d.keys) : d.keys[j] = k
    THEN LET j == CHOOSE j \in 1..Len(d.keys) : d.keys[j] = k
         IN  [d EXCEPT !.items[j] = v]
    ELSE [d EXCEPT !.keys = Append(@, k), !.items = Append(@, v)]

RECURSIVE ScanOnce(_, _), ArrayItems(_, _, _), ObjectPairs(_, _, _)

\* JSONArray after the opening bracket and the whitespace behind it, or
\* after a comma and the whitespace behind it: i is where the next value
\* starts, vs the values read so far.
ArrayItems(s, i, vs) ==
    LET r == ScanOnce(s, i)
        e == SkipWhitespace(s, r.end)
    IN  IF ~r.ok THEN ScanFailed
        ELSE IF At(s, e) = "]" THEN Scanned(ListV(Append(vs, r.val)), e + 1)
        ELSE IF At(s, e) = ","
        THEN ArrayItems(s, SkipWhitespace(s, e + 1), Append(vs, r.val))
        ELSE ScanFailed

\* JSONObject: i is the index of the quote that opens the next key, d the
\* dict read so far.
ObjectPairs(s, i, d) ==
    LET k == ScanString(s, i + 1)
        c == SkipWhitespace(s, k.end)
        r == ScanOnce(s, SkipWhitespace(s, c + 1))
        e == SkipWhitespace(s, r.end)
        n == SkipWhitespace(s, e + 1)
    IN  IF At(s, i) # Quote \/ ~k.ok THEN ScanFailed
        ELSE IF At(s, c) # ":" THEN ScanFailed
        ELSE IF ~r.ok THEN ScanFailed
        ELSE IF At(s, e) = "}" THEN Scanned(DictSet(d, k.val, r.val), e + 1)
        ELSE IF At(s, e) = "," THEN ObjectPairs(s, n, DictSet(d, k.val, r.val))
        ELSE ScanFailed

\* scan_once(s, i) of json.scanner: the value that starts exactly at i.
ScanOnce(s, i) ==
    LET c == At(s, i) IN
    IF c = Quote THEN ScanString(s, i + 1)
    ELSE IF c = "{"
    THEN LET j == SkipWhitespace(s, i + 1) IN
         IF At(s, j) = "}" THEN Scanned(DictV(<<>>, <<>>), j + 1)
         ELSE ObjectPairs(s, j, DictV(<<>>, <<>>))
    ELSE IF c = "["
    THEN LET j == SkipWhitespace(s, i + 1) IN
         IF At(s, j) = "]" THEN Scanned(ListV(<<>>), j + 1)
         ELSE ArrayItems(s, j, <<>>)
    ELSE IF c = "n"
    THEN IF i + 4 <= Len(s) /\ SubSeq(s, i + 1, i + 4) = <<"n", "u", "l", "l">>
         THEN Scanned(NoneV, i + 4)
         ELSE ScanFailed
    ELSE IF c = "0" THEN Scanned(NumV(0), i + 1)
    ELSE IF DigitsEnd(s, i) > i
    THEN Scanned(NumV(IntOf(s, i, DigitsEnd(s, i))), DigitsEnd(s, i))
    ELSE ScanFailed

\* JSONDecoder.raw_decode(s, idx)
RawDecode(s, idx) == ScanOnce(s, idx)

\* What response.json() gives: the value, or the JSONDecodeError, whose
\* text holds 'Extra data' when a value is followed by more than
\* whitespace.
Loaded(v) == [ok |-> TRUE, val |-> v, extra_data |-> FALSE]

LoadFailed(extra) == [ok |-> FALSE, val |-> NoneV, extra_data |-> extra]

\* json.loads(s): JSONDecoder.decode
Loads(s) ==
    LET r == RawDecode(s, SkipWhitespace(s, 0)) IN
    IF ~r.ok THEN LoadFailed(FALSE)
    ELSE IF SkipWhitespace(s, r.end) # Len(s) THEN LoadFailed(TRUE)
    ELSE Loaded(r.val)

\* position += 1 of json_decoder
NextPosition(data, position) == position + 1

\* The loop of json_decoder: decoded_data.
RECURSIVE DecodedData(_, _, _)
DecodedData(data, position, decoded_data) ==
    LET r == RawDecode(data, position) IN
    IF ~r.ok THEN decoded_data
    ELSE DecodedData(data, NextPosition(data, r.end),
                     Append(decoded_data, r.val))

\* Mutant of Unwrap: the values are always returned as a list.
Unwrap_Never(decoded_data) == ListV(decoded_data)

\* The last lines of json_decoder: one value is returned as it is.
Unwrap(decoded_data) ==
    IF Len(decoded_data) = 1 THEN decoded_data[1] ELSE ListV(decoded_data)

\* json_decoder(data)
JsonDecoder(data) == Unwrap(DecodedData(data, 0, <<>>))

\* The names the client looks for in a decoded body.
Name_result == <<"r", "e", "s", "u", "l", "t">>

Name_errorCode == <<"e", "r", "r", "o", "r", "C", "o", "d", "e">>

Name_errorMessage ==
    <<"e", "r", "r", "o", "r", "M", "e", "s", "s", "a", "g", "e">>

Name_errors == <<"e", "r", "r", "o", "r", "s">>

\* bool(v) of Python
Truthy(v) ==
    CASE v.t = "null" -> FALSE
      [] v.t = "num" -> v.n # 0
      [] v.t = "str" -> v.chars # <<>>
      [] v.t = "list" -> v.items # <<>>
      [] v.t = "dict" -> v.keys # <<>>

\* Whether Python evaluates 'name' in v at all: for a number it raises
\* TypeError.
IsContainer(v) == v.t \in {"str", "list", "dict"}

\* 'name' in v: a key of a dict, an element of a list, a substring of a
\* string.
In(name, v) ==
    CASE v.t = "dict" -> \E j \in 1..Len(v.keys) : v.keys[j] = StrV(name)
      [] v.t = "list" -> \E j \in 1..Len(v.items) : v.items[j] = StrV(name)
      [] v.t = "str" ->
            \E j \in 0..Len(v.chars) :
                /\ j + Len(name) <= Len(v.chars)
                /\ SubSeq(v.chars, j + 1, j + Len(name)) = name
      [] OTHER -> FALSE

\* d['name'] for a dict d that has the key.
Item(d, name) ==
    d.items[CHOOSE j \in 1..Len(d.keys) : d.keys[j] = StrV(name)]

RECURSIVE FindItem(_, _), FindInValues(_, _, _)

\* The for loops of _finditem over the values of a dict or the elements
\* of a list, from the i-th on: the first dict or list among them in which
\* the key is found with a value that is not None.
FindInValues(values, i, key) ==
    IF i > Len(values) THEN NoneV
    ELSE LET item == IF values[i].t \in {"dict", "list"}
                     THEN FindItem(values[i], key)
                     ELSE NoneV
         IN  IF item # NoneV THEN item
             ELSE FindInValues(values, i + 1, key)

\* _finditem(obj, key)
FindItem(obj, key) ==
    IF obj.t = "dict"
    THEN IF In(key, obj) THEN Item(obj, key)
         ELSE FindInValues(obj.items, 1, key)
    ELSE IF obj.t = "list" THEN FindInValues(obj.items, 1, key)
    ELSE NoneV

\* What a step on a response ends with: the value it returns, or the
\* class of the exception it raises and, for a CvpApiError, the lines of
\* its message behind 'Request Error: '.
Returned(v) == [raised |-> "", val |-> v, msg |-> <<>>]

Raised(cls) == [raised |-> cls, val |-> NoneV, msg |-> <<>>]

ApiError(lines) == [raised |-> "CvpApiError", val |-> NoneV, msg |-> lines]

\* Nothing has been returned or raised.
NoResult == Raised("None")

\* err_msg built from error_list: error_list[0], then the other entries,
\* each on a line of its own.
ErrorListMessage(error_list) ==
    CASE error_list.t = "list" ->
            IF error_list.items = <<>> THEN Raised("IndexError")
            ELSE ApiError(error_list.items)
      [] error_list.t = "str" ->
            IF error_list.chars = <<>> THEN Raised("IndexError")
            ELSE ApiError([j \in 1..Len(error_list.chars) |->
                              StrV(<<error_list.chars[j]>>)])
      [] error_list.t = "dict" -> Raised("KeyError")
      [] OTHER -> Raised("TypeError")

\* _is_good_response from joutput on: the search for errorCode and the
\* CvpApiError built from the top level of joutput.
ErrorCodeCheck(joutput) ==
    LET err_code_val == FindItem(joutput, Name_errorCode) IN
    IF ~Truthy(err_code_val) THEN Returned(NoneV)
    ELSE IF In(Name_errorMessage, joutput)
    THEN IF joutput.t = "dict"
         THEN ApiError(<<Item(joutput, Name_errorMessage)>>)
         ELSE Raised("TypeError")
    ELSE IF In(Name_errors, joutput)
    THEN IF joutput.t = "dict"
         THEN ErrorListMessage(Item(joutput, Name_errors))
         ELSE Raised("TypeError")
    ELSE IF joutput.t # "dict" THEN Raised("TypeError")
    ELSE IF ~In(Name_errorCode, joutput) THEN Raised("KeyError")
    ELSE ApiError(<<Item(joutput, Name_errorCode)>>)

\* Mutant of EmptyContent: only the empty body counts as no data.
EmptyContent_EmptyOnly(content) == content = <<>>

\* not response.content or response.content == b'null'
EmptyContent(content) ==
    content = <<>> \/ content = <<"n", "u", "l", "l">>

\* _make_request from the test of response.content on: what the request
\* returns or raises for a good response with this body; resources is
\* '/resources/' in full_url.
DecodeResponse(content, resources) ==
    IF EmptyContent(content) THEN Returned(DataV(ListV(<<>>)))
    ELSE LET r == Loads(content) IN
         IF r.ok
         THEN IF r.val = NoneV THEN Returned(r.val)
              ELSE IF ~IsContainer(r.val) THEN Raised("TypeError")
              ELSE IF In(Name_result, r.val) /\ resources
              THEN Returned(DataV(ListV(<<r.val>>)))
              ELSE Returned(r.val)
         ELSE IF r.extra_data THEN Returned(DataV(JsonDecoder(content)))
         ELSE Raised("JSONDecodeError")

(* ------------------------------ versions ------------------------------- *)

\* version.split('.'): i is the index to read next, acc the component
\* read so far.
RECURSIVE Split(_, _, _)
Split(s, i, acc) ==
    IF i >= Len(s) THEN <<acc>>
    ELSE IF At(s, i) = "." THEN <<acc>> \o Split(s, i + 1, <<>>)
    ELSE Split(s, i + 1, Append(acc, At(s, i)))

\* str(n)
RECURSIVE Decimal(_)
Decimal(n) ==
    IF n < 10 THEN <<Digits[n + 1]>>
    ELSE Append(Decimal(n \div 10), Digits[(n % 10) + 1])

\* The release of parse_version(): the number of every component.
Release(components) ==
    [j \in 1..Len(components) |->
        IntOf(components[j], 0, Len(components[j]))]

\* parse_version(a) >= parse_version(b) for releases: component by
\* component, a missing component counting as 0.
RECURSIVE ReleaseGE(_, _)
ReleaseGE(a, b) ==
    IF a = <<>> /\ b = <<>> THEN TRUE
    ELSE LET x == IF a = <<>> THEN 0 ELSE Head(a)
             y == IF b = <<>> THEN 0 ELSE Head(b)
         IN  IF x # y THEN x > y
             ELSE ReleaseGE(IF a = <<>> THEN a ELSE Tail(a),
                            IF b = <<>> THEN b ELSE Tail(b))

\* CvpClient.LATEST_API_VERSION, and the api versions, in whole numbers.
LATEST_API_VERSION == 8

\* self.apiversion before set_version: None.
NoApiVersion == 0

\* Mutant of ApiVersion: the version is compared in hosted mode too.
ApiVersion_HostedCompares(hosted, version_text) ==
    LET version_components == Split(version_text, 0, <<>>)
        full_version ==
            Release(IF Len(version_components) < 3
                    THEN Append(version_components, <<"0">>)
                    ELSE version_components)
    IN  IF ReleaseGE(full_version, <<2022, 1, 0>>) THEN 8
        ELSE IF ReleaseGE(full_version, <<2021, 3, 0>>) THEN 7
        ELSE IF ReleaseGE(full_version, <<2021, 2, 0>>) THEN 6
        ELSE IF ReleaseGE(full_version, <<2020, 2, 4>>) THEN 5
        ELSE IF ReleaseGE(full_version, <<2020, 1, 1>>) THEN 4
        ELSE IF ReleaseGE(full_version, <<2019, 0, 0>>) THEN 3
        ELSE IF ReleaseGE(full_version, <<2018, 2, 0>>) THEN 2
        ELSE 1

\* Mutant of ApiVersion: no else branch, a version below every threshold
\* leaves self.apiversion as __init__ set it.
ApiVersion_NoOldest(hosted, version_text) ==
    IF hosted THEN LATEST_API_VERSION
    ELSE LET version_components == Split(version_text, 0, <<>>)
             full_version ==
                 Release(IF Len(version_components) < 3
                         THEN Append(version_components, <<"0">>)
                         ELSE version_components)
         IN  IF ReleaseGE(full_version, <<2022, 1, 0>>) THEN 8
             ELSE IF ReleaseGE(full_version, <<2021, 3, 0>>) THEN 7
             ELSE IF ReleaseGE(full_version, <<2021, 2, 0>>) THEN 6
             ELSE IF ReleaseGE(full_version, <<2020, 2, 4>>) THEN 5
             ELSE IF ReleaseGE(full_version, <<2020, 1, 1>>) THEN 4
             ELSE IF ReleaseGE(full_version, <<2019, 0, 0>>) THEN 3
             ELSE IF ReleaseGE(full_version, <<2018, 2, 0>>) THEN 2
             ELSE NoApiVersion

\* self.apiversion as set_version sets it.
ApiVersion(hosted, version_text) ==
    IF hosted THEN LATEST_API_VERSION
    ELSE LET version_components == Split(version_text, 0, <<>>)
             full_version ==
                 Release(IF Len(version_components) < 3
                         THEN Append(version_components, <<"0">>)
                         ELSE version_components)
         IN  IF ReleaseGE(full_version, <<2022, 1, 0>>) THEN 8
             ELSE IF ReleaseGE(full_version, <<2021, 3, 0>>) THEN 7
             ELSE IF ReleaseGE(full_version, <<2021, 2, 0>>) THEN 6
             ELSE IF ReleaseGE(full_version, <<2020, 2, 4>>) THEN 5
             ELSE IF ReleaseGE(full_version, <<2020, 1, 1>>) THEN 4
             ELSE IF ReleaseGE(full_version, <<2019, 0, 0>>) THEN 3
             ELSE IF ReleaseGE(full_version, <<2018, 2, 0>>) THEN 2
             ELSE 1

(* ------------------------------- state -------------------------------- *)

VARIABLES
    nodes,          \* self.nodes
    node_cnt,       \* self.node_cnt (None before connect)
    cursor,         \* self.node_pool: index (from 0) of the node next() gives
    api_token,      \* self.api_token
    is_cvaas,       \* self.is_cvaas
    tenant,         \* self.tenant
    arg_api_token,  \* the api_token argument of the latest connect()
    session,        \* self.session: "None", "fresh" (a requests.Session that
                    \*   has not logged in) or "live" (logged in)
    url_host,       \* the host of self.url_prefix / self.url_prefix_short
    headers,        \* self.headers beyond Accept and Content-Type
    error_msg,      \* self.error_msg: the (host, error) lines
    last_used_node, \* self._last_used_node
    pc,             \* "idle", "login", "send", "done"
    op,             \* the call in progress
    ctx,            \* who runs the login: "connect", "failover", "reset"
    tries_left,     \* iterations left in _create_session, this one included
    node_num,       \* node_num of _make_request
    req_try,        \* req_try of _send_request
    error,          \* the error held while a failover or a reset logs in
    req,            \* the url argument of the request in progress
    full_url,       \* full_url of _make_request
    result,         \* what the call returns (Ok) or raises
    sends,          \* history: transport attempts of the request so far
    node_sends,     \* history: those of the node-level attempt in progress
    only_timeouts,  \* history: each of them ended with a timeout
    only_transport, \* history: each attempt of the request so far ended
                    \*   with a transport failure
    last_out,       \* history: how the transport attempt just made ended
                    \*   (NoOutcome once a login exchange has followed it)
    last_body,      \* history: the body of the good response just received
    last_err,       \* history: the error of the latest transport attempt
    last_host,      \* history: the host the latest transport attempt went to
    logins,         \* history: login exchanges since that attempt
    login_posts,    \* history: those that sent the POST of _login_on_prem
    reset_failed,   \* history: the reset of this node-level attempt failed
    session_host,   \* history: the host whose login made self.session live
    tried,          \* history: the hosts of the node-level attempts so far
    parts,          \* the JSON texts that make up the body of a response
    sep,            \*   and the text between them: response.text
    resources,      \* '/resources/' in full_url for that response
    stage,          \* how far the client is with that response
    verdict,        \* what _is_good_response made of its body
    decoded,        \* what _make_request returned or raised for it
    version_arg,    \* the version argument of set_version
    version,        \* self.version
    apiversion,     \* self.apiversion
    thr,            \* two requests that share the client: where each is
    sent,           \* history: what the latest send of each was made with
    writer,         \* history: the request that last wrote the session
    broken          \* history: a reset has ended with an uncaught error

conn == <<nodes, node_cnt, api_token, is_cvaas, tenant, arg_api_token>>

sess == <<session, url_host, cursor, headers, error_msg>>

ctl == <<pc, op, ctx, tries_left, node_num, req_try, error, req, full_url,
         result>>

hist == <<sends, node_sends, only_timeouts, only_transport, last_out,
          last_body, last_err, last_host, logins, login_posts, reset_failed>>

\* One response on its way through _is_good_response and the decoding of
\* _make_request.
resp == <<parts, sep, resources, stage, verdict, decoded>>

vers == <<version_arg, version, apiversion>>

race == <<thr, sent, writer, broken>>

track == <<session_host, tried>>

vars == <<conn, sess, last_used_node, ctl, hist, track, resp, vers, race>>

\* CvpClient.__init__; with cvaas, the client after
\* connect([], ..., is_cvaas=True) has raised CvpLoginError.
ClientInit(cvaas) ==
    /\ nodes = <<>>
    /\ node_cnt = IF cvaas THEN 0 ELSE NoCount
    /\ cursor = 0
    /\ api_token = None
    /\ is_cvaas = cvaas
    /\ tenant = None
    /\ arg_api_token = None
    /\ session = None
    /\ url_host = None
    /\ headers = {}
    /\ error_msg = <<>>
    /\ last_used_node = None
    /\ pc = "idle"
    /\ op = None
    /\ ctx = None
    /\ tries_left = 0
    /\ node_num = 0
    /\ req_try = 0
    /\ error = NoErr
    /\ req = NoUrl
    /\ full_url = NoFullUrl
    /\ result = NoErr
    /\ sends = 0
    /\ node_sends = 0
    /\ only_timeouts = TRUE
    /\ only_transport = TRUE
    /\ last_out = NoOutcome
    /\ last_body = NoBody
    /\ last_err = NoErr
    /\ last_host = None
    /\ logins = 0
    /\ login_posts = 0
    /\ reset_failed = FALSE
    /\ session_host = None
    /\ tried = <<>>

\* No response is being looked at.
NoResponse ==
    /\ parts = <<>>
    /\ sep = <<>>
    /\ resources = FALSE
    /\ stage = "none"
    /\ verdict = NoResult
    /\ decoded = NoResult

\* set_version has not been called.
NoVersion ==
    /\ version_arg = <<>>
    /\ version = <<>>
    /\ apiversion = NoApiVersion

\* The callers of the client's requests, when two of them share it.
Threads == {1, 2}

\* A caller that is in no request; latest is what its latest request
\* returned or raised.
Idle(latest) == [pc |-> "idle", req_try |-> 0, result |-> latest]

\* The caller has made no send yet.
NotSent == [session |-> "-", sid |-> FALSE, writer |-> 0, broken |-> FALSE]

\* No two requests share the client.
NoRace ==
    /\ thr = [t \in Threads |-> Idle("")]
    /\ sent = [t \in Threads |-> NotSent]
    /\ writer = 0
    /\ broken = FALSE

Init == ClientInit(FALSE) /\ NoResponse /\ NoVersion /\ NoRace


(* ------------------------- decisions of the code ----------------------- *)

\* Mutant of FinalNode: the final node-level attempt is recognised one
\* attempt late.
FinalNode_OneLate(n) == n = node_cnt

\* node_num + 1 == self.node_cnt
FinalNode(n) == n + 1 = node_cnt

\* Mutant of NumNodes: a failover tries every node, the current one too.
NumNodes_All(all_nodes) == node_cnt

\* num_nodes of _create_session
NumNodes(all_nodes) ==
    IF ~all_nodes /\ node_cnt > 1 THEN node_cnt - 1 ELSE node_cnt

\* Mutant of ResetsSession: a logged-out answer no longer resets the
\* session.
ResetsSession_NoLogOut(e) ==
    e.cls = "CvpApiError" /\ IsUnauthorizedMsg(e.msg)

\* Mutant of ResetsSession: every CvpApiError resets the session,
\* whatever its message.
ResetsSession_AnyApiError(e) ==
    e.cls \in {"CvpSessionLogOutError", "CvpApiError"}

\* The except clauses of _send_request that reset the session and retry
\* on the same node: CvpSessionLogOutError, and an unauthorized CvpApiError.
ResetsSession(e) ==
    \/ e.cls = "CvpSessionLogOutError"
    \/ e.cls = "CvpApiError" /\ IsUnauthorizedMsg(e.msg)

\* Mutant of FailsOver: every CvpApiError goes on to another node,
\* whatever its message.
FailsOver_AnyApiError(e) ==
    \/ e.cls = "CvpApiError"
    \/ e.cls \in TransportErrors \cup TimeoutErrors
                    \cup {"CvpSessionLogOutError"}

\* The except clauses of _make_request that go on to another node: an
\* unauthorized CvpApiError, and the errors of the second clause.  Any
\* other error leaves _make_request.
FailsOver(e) ==
    \/ e.cls = "CvpApiError" /\ IsUnauthorizedMsg(e.msg)
    \/ e.cls \in TransportErrors \cup TimeoutErrors
                    \cup {"CvpSessionLogOutError"}

\* _login reaches _login_on_prem, which sends the POST to
\* /login/authenticate.do: no token, and not the hosted service.
PostsLogin == api_token = None /\ ~is_cvaas

\* Mutant of LoginOutcomes: with a token the login is sent to the node
\* all the same, and can fail.
LoginOutcomes_TokenCanFail ==
    IF api_token = None /\ is_cvaas THEN {"CvpLoginError"}
    ELSE {"ok", "JSONDecodeError"} \cup CaughtLoginErrors

\* What the login exchange of _login can end with, by the credentials.
LoginOutcomes ==
    IF api_token # None THEN {"ok"}
    ELSE IF is_cvaas THEN {"CvpLoginError"}
    ELSE {"ok", "JSONDecodeError"} \cup CaughtLoginErrors

(* ------------------------- where a step leads -------------------------- *)

\* The call returns or raises r; s is self.session, em self.error_msg.
Stop(s, r, em) ==
    /\ session' = s
    /\ result' = r
    /\ error_msg' = em
    /\ pc' = "done"
    /\ ctx' = None
    /\ tries_left' = 0
    /\ error' = NoErr
    /\ UNCHANGED <<url_host, cursor, node_num, req_try>>

\* Mutant of Rotate: next(self.node_pool) skips a node.
Rotate_SkipOne(nl, cnt, cur, c, n, e, em) ==
    /\ url_host' = nl[cur + 1]
    /\ cursor' = (cur + 2) % cnt
    /\ session' = "fresh"
    /\ error_msg' = em
    /\ pc' = "login"
    /\ ctx' = c
    /\ tries_left' = n
    /\ error' = e
    /\ UNCHANGED <<result, node_num, req_try>>

\* Mutant of Rotate: every selection starts again at the head of the list.
Rotate_Restart(nl, cnt, cur, c, n, e, em) ==
    /\ url_host' = nl[1]
    /\ cursor' = 1 % cnt
    /\ session' = "fresh"
    /\ error_msg' = em
    /\ pc' = "login"
    /\ ctx' = c
    /\ tries_left' = n
    /\ error' = e
    /\ UNCHANGED <<result, node_num, req_try>>

\* Mutant of Rotate: _reset_session keeps the session it finds and makes
\* a new one only when there is none.
Rotate_KeepsSession(nl, cnt, cur, c, n, e, em) ==
    /\ url_host' = nl[cur + 1]
    /\ cursor' = (cur + 1) % cnt
    /\ session' = IF session = None THEN "fresh" ELSE session
    /\ error_msg' = em
    /\ pc' = "login"
    /\ ctx' = c
    /\ tries_left' = n
    /\ error' = e
    /\ UNCHANGED <<result, node_num, req_try>>

\* One iteration of the loop of _create_session up to the login exchange:
\* next(self.node_pool), the url prefixes, and the new requests.Session of
\* _reset_session.  c is the caller, n the iterations left, e the error
\* the caller holds, em self.error_msg.
Rotate(nl, cnt, cur, c, n, e, em) ==
    /\ url_host' = nl[cur + 1]
    /\ cursor' = (cur + 1) % cnt
    /\ session' = "fresh"
    /\ error_msg' = em
    /\ pc' = "login"
    /\ ctx' = c
    /\ tries_left' = n
    /\ error' = e
    /\ UNCHANGED <<result, node_num, req_try>>

\* The next transport attempt: node-level attempt nn, try rt.
Attempt(s, nn, rt) ==
    /\ session' = s
    /\ pc' = "send"
    /\ node_num' = nn
    /\ req_try' = rt
    /\ ctx' = None
    /\ tries_left' = 0
    /\ error' = NoErr
    /\ UNCHANGED <<url_host, cursor, error_msg, result>>

\* Mutant of Reset: the reset takes the next node of the pool.
Reset_Rotates(e) ==
    /\ session' = "fresh"
    /\ pc' = "login"
    /\ ctx' = "reset"
    /\ tries_left' = 0
    /\ error' = e
    /\ url_host' = nodes[cursor + 1]
    /\ cursor' = (cursor + 1) % node_cnt
    /\ UNCHANGED <<error_msg, result, node_num, req_try>>

\* _reset_session called by _send_request, up to the login exchange.
Reset(e) ==
    /\ session' = "fresh"
    /\ pc' = "login"
    /\ ctx' = "reset"
    /\ tries_left' = 0
    /\ error' = e
    /\ UNCHANGED <<url_host, cursor, error_msg, result, node_num, req_try>>

\* Mutant of HandleNodeFailure: an error that leaves the call takes the
\* session with it.
HandleNodeFailure_DropsSession(e, s) ==
    IF ~FailsOver(e) \/ FinalNode(node_num)
    THEN Stop(None, e, error_msg)
    ELSE Rotate(nodes, node_cnt, cursor, "failover", NumNodes(FALSE), e, <<>>)

\* Mutant of HandleNodeFailure: every error leaves the call, no failover.
HandleNodeFailure_Propagate(e, s) == Stop(s, e, error_msg)

\* _send_request raised e into _make_request; s is self.session.
HandleNodeFailure(e, s) ==
    IF ~FailsOver(e) \/ FinalNode(node_num)
    THEN Stop(s, e, error_msg)
    ELSE Rotate(nodes, node_cnt, cursor, "failover", NumNodes(FALSE), e, <<>>)

(* ------------------------------ actions ------------------------------- *)

\* The host self.session is bound to after a step that made no login:
\* a session that stays live keeps its host, a requests.Session that has
\* not logged in (or no session) has none.
BoundHost == IF session' = "live" THEN session_host ELSE None

\* connect(nodes, ..., is_cvaas, tenant, api_token): up to the first
\* login exchange.
Connect(nl, tok, cvaas, ten) ==
    /\ pc = "idle"
    /\ nodes' = nl
    /\ node_cnt' = Len(nl)
    /\ api_token' = IF tok # None THEN tok ELSE api_token
    /\ is_cvaas' = cvaas
    /\ tenant' = ten
    /\ arg_api_token' = tok
    /\ op' = "connect"
    /\ IF Len(nl) = 0
       THEN /\ cursor' = 0
            /\ error_msg' = <<>>
            /\ result' = IF session = None THEN Err("CvpLoginError", {})
                                           ELSE Ok
            /\ pc' = "done"
            /\ UNCHANGED <<session, url_host, ctx, tries_left, error,
                           node_num, req_try>>
       ELSE Rotate(nl, Len(nl), 0, "connect", Len(nl), NoErr, <<>>)
    /\ session_host' = BoundHost
    /\ UNCHANGED <<headers, last_used_node, req, full_url, hist, tried, resp,
                   vers, race>>


\* The login exchange of _login (called by _reset_session), and the code
\* that follows it in the caller up to the next exchange.
LoginStep(out) ==
    /\ pc = "login"
    /\ out \in LoginOutcomes
    /\ headers' = IF out = "ok"
                  THEN (headers \ {"APP_SESSION_ID"}) \cup
                       {IF api_token # None THEN "Authorization"
                                            ELSE "APP_SESSION_ID"}
                  ELSE headers \ {"APP_SESSION_ID"}
    /\ IF out = "ok"
       THEN CASE ctx = "connect" -> Stop("live", Ok, error_msg)
              [] ctx = "failover" -> Attempt("live", node_num + 1, 0)
              [] ctx = "reset" -> Attempt("live", node_num, req_try + 1)
       ELSE IF out \in UncaughtLoginErrors
       THEN Stop(session, Err(out, {}), error_msg)
       ELSE IF ctx = "reset"
       THEN HandleNodeFailure(error, None)
       ELSE LET em == Append(error_msg, <<url_host, out>>) IN
            IF tries_left > 1
            THEN Rotate(nodes, node_cnt, cursor, ctx, tries_left - 1, error, em)
            ELSE Stop(None,
                      IF ctx = "connect" THEN Err("CvpLoginError", {})
                                         ELSE error,
                      em)
    /\ logins' = logins + 1
    /\ login_posts' = IF PostsLogin THEN login_posts + 1 ELSE login_posts
    /\ IF out = "ok" /\ ctx = "failover"
       THEN node_sends' = 0 /\ only_timeouts' = TRUE /\ reset_failed' = FALSE
       ELSE /\ reset_failed' =
                  (reset_failed \/ (ctx = "reset" /\ out \in CaughtLoginErrors))
            /\ UNCHANGED <<node_sends, only_timeouts>>
    /\ last_out' = NoOutcome
    /\ last_body' = NoBody
    /\ full_url' = IF out = "ok" /\ ctx = "failover"
                   THEN FullUrl(req, is_cvaas, url_host)
                   ELSE full_url
    /\ session_host' = IF out = "ok" THEN url_host ELSE BoundHost
    /\ tried' = IF out = "ok" /\ ctx = "failover"
                THEN Append(tried, url_host)
                ELSE tried
    /\ UNCHANGED <<conn, last_used_node, op, req, sends, only_transport,
                   last_err, last_host, resp, vers, race>>

\* The req_type argument of _make_request; it selects the method of the
\* requests.Session that _send_request calls, and nothing else.
ReqTypes == {"GET", "POST", "DELETE"}

\* _make_request up to the first transport attempt.
MakeRequest(req_type, u, o) ==
    /\ pc = "idle"
    /\ req_type \in ReqTypes
    /\ op' = o
    /\ req' = u
    /\ UNCHANGED hist
    /\ IF session = None
       THEN /\ Stop(session, Err("ValueError", {}), error_msg)
            /\ UNCHANGED last_used_node
       ELSE /\ last_used_node' = url_host
            /\ IF node_cnt = 0
               THEN Stop(session, Err("NoResponse", {}), error_msg)
               ELSE Attempt(session, 0, 0)
    /\ full_url' = IF session # None /\ node_cnt # 0
                   THEN FullUrl(u, is_cvaas, url_host)
                   ELSE NoFullUrl
    /\ tried' = IF session # None /\ node_cnt # 0 THEN <<url_host>> ELSE <<>>
    /\ UNCHANGED <<conn, headers, session_host, resp, vers, race>>

Get(u) == MakeRequest("GET", u, "request")

Post(u) == MakeRequest("POST", u, "request")

Delete(u) == MakeRequest("DELETE", u, "request")

\* logout(): self.post('/login/logout.do')
Logout == MakeRequest("POST", LogoutUrl, "logout")

\* The error of a transport attempt that ended with o, or NoErr.
OutcomeError(o, prefix) ==
    IF o.exc # None THEN Err(o.exc, {}) ELSE IsGoodResponse(o.resp, prefix)

\* Mutant of RetriesSameNode: a ConnectionError is retried like a timeout.
RetriesSameNode_ConnectionError(e) ==
    e.cls \in TimeoutErrors \cup {"ConnectionError"}

\* The except clause of _send_request that retries on the same node
\* without a login: ReadTimeout, Timeout.
RetriesSameNode(e) == e.cls \in TimeoutErrors

\* What the call returns or raises once _send_request has returned a good
\* response: the decoding of _make_request, then the test of logout().
BodyResult(body) ==
    IF body = "bad_json" THEN Err("JSONDecodeError", {})
    ELSE IF body = "scalar" THEN Err("TypeError", {})
    ELSE IF op = "logout" /\ body = "no_data" THEN Err("KeyError", {})
    ELSE Ok

\* Mutant of Respond: a body that cannot be decoded is taken for a
\* logged-out session.
Respond_ResetOnBadJson(body) ==
    IF body = "bad_json"
    THEN Reset(Err("JSONDecodeError", {}))
    ELSE Stop(IF op = "logout" /\ body = "data_success" THEN None
                                                       ELSE session,
              BodyResult(body), error_msg)

\* _send_request has returned a good response: the rest of _make_request,
\* and of logout() when it is the caller.
Respond(body) ==
    Stop(IF op = "logout" /\ body = "data_success" THEN None ELSE session,
         BodyResult(body), error_msg)

\* One transport attempt of _send_request, and the code that follows it up
\* to the next exchange.
SendStep(o) ==
    /\ pc = "send"
    /\ LET e == OutcomeError(o, req.text) IN
       /\ IF e = NoErr
          THEN \E body \in Bodies : Respond(body) /\ last_body' = body
          ELSE /\ last_body' = NoBody
               /\ IF RetriesSameNode(e) /\ ~FinalTry(req_try)
                  THEN Attempt(session, node_num, req_try + 1)
                  ELSE IF ResetsSession(e) /\ ~FinalTry(req_try)
                  THEN Reset(e)
                  ELSE HandleNodeFailure(e, session)
       /\ only_timeouts' = (only_timeouts /\ e.cls \in TimeoutErrors)
       /\ only_transport' = (only_transport /\ e.cls \in TransportErrors)
       /\ last_err' = e
    /\ sends' = sends + 1
    /\ node_sends' = node_sends + 1
    /\ last_out' = o
    /\ last_host' = full_url.host
    /\ logins' = 0
    /\ login_posts' = 0
    /\ session_host' = BoundHost
    /\ UNCHANGED <<conn, headers, last_used_node, op, req, full_url,
                   reset_failed, tried, resp, vers, race>>

\* The call has returned or raised: the caller has the result.
Return ==
    /\ pc = "done"
    /\ pc' = "idle"
    /\ op' = None
    /\ req' = NoUrl
    /\ full_url' = NoFullUrl
    /\ result' = NoErr
    /\ node_num' = 0
    /\ req_try' = 0
    /\ sends' = 0
    /\ node_sends' = 0
    /\ only_timeouts' = TRUE
    /\ only_transport' = TRUE
    /\ last_out' = NoOutcome
    /\ last_body' = NoBody
    /\ last_err' = NoErr
    /\ last_host' = None
    /\ logins' = 0
    /\ login_posts' = 0
    /\ reset_failed' = FALSE
    /\ tried' = <<>>
    /\ UNCHANGED <<conn, sess, last_used_node, ctx, tries_left, error,
                   session_host, resp, vers, race>>

Next ==
    \/ \E nl \in NodeLists, tok \in Tokens, d \in Deployments :
          Connect(nl, tok, d.is_cvaas, d.tenant)
    \/ \E out \in {"ok"} \cup CaughtLoginErrors \cup UncaughtLoginErrors :
          LoginStep(out)
    \/ \E u \in Urls : Get(u)
    \/ \E u \in Urls : Post(u)
    \/ \E u \in Urls : Delete(u)
    \/ Logout
    \/ \E o \in Outcomes : SendStep(o)
    \/ Return

Spec == Init /\ [][Next]_vars

(* ------------------- the body of a response, step by step --------------- *)

\* A JSON string, and objects with one and with two members.
JsonString(cs) == <<Quote>> \o cs \o <<Quote>>

Object1(k, v) == <<"{">> \o JsonString(k) \o <<":">> \o v \o <<"}">>

Object2(k1, v1, k2, v2) ==
    <<"{">> \o JsonString(k1) \o <<":">> \o v1 \o <<",">>
            \o JsonString(k2) \o <<":">> \o v2 \o <<"}">>

\* Texts of one JSON value each.
ValueTexts ==
    { <<"1">>, <<" ", "1">>, <<"[", "]">>, <<"[", "1", "]">>, <<"{", "}">>,
      Object1(Name_result, <<"1">>), Object1(<<"a">>, <<"1">>),
      JsonString(Name_result),
      <<"[">> \o JsonString(Name_result) \o <<"]">>,
      <<"n", "u", "l", "l">> }

\* Texts that are no JSON value.
BrokenTexts == { <<"]">>, <<"[">>, <<"x">> }

\* Values that a resources API streams.
StreamTexts == { <<"[", "1", "]">>, Object1(<<"a">>, <<"1">>) }

\* Values of errorCode: a number, zero, a string.
CodeTexts == { <<"1">>, <<"0">>, JsonString(<<"x">>) }

\* Values of errors: lists of none, one and two messages.
ErrorsTexts ==
    { <<"[", "]">>,
      <<"[">> \o JsonString(<<"e">>) \o <<"]">>,
      <<"[">> \o JsonString(<<"e">>) \o <<",">> \o JsonString(<<"f">>)
             \o <<"]">> }

\* Answers with an errorCode at the top level.
TopErrorTexts ==
    { Object1(Name_errorCode, c) : c \in CodeTexts }
    \cup { Object2(Name_errorCode, c, Name_errorMessage, JsonString(<<"m">>)) :
              c \in CodeTexts }
    \cup { Object2(Name_errorCode, c, Name_errors, l) :
              c \in CodeTexts, l \in ErrorsTexts }

\* Answers with an errorCode below the top level only.
NestedErrorTexts ==
    { Object1(<<"d">>, Object1(Name_errorCode, c)) : c \in CodeTexts }
    \cup { <<"[">> \o Object1(Name_errorCode, c) \o <<"]">> : c \in CodeTexts }
    \cup { Object2(<<"d">>, Object1(Name_errorCode, c),
                   Name_errorMessage, JsonString(<<"m">>)) : c \in CodeTexts }
    \cup { Object2(<<"d">>, Object1(Name_errorCode, c),
                   Name_errors, <<"[">> \o JsonString(<<"e">>) \o <<"]">>) :
              c \in CodeTexts }
    \cup { Object1(<<"d">>, Object2(Name_errorCode, c, Name_errorMessage,
                                    JsonString(<<"m">>))) : c \in CodeTexts }

\* What stands between the values of a body.
Separators == { <<>>, <<"\n">>, <<" ", "\n">> }

\* The bodies: none, one text, two or three texts with a separator.
BodyInputs ==
    { [parts |-> <<>>, sep |-> <<>>] }
    \cup { [parts |-> <<p>>, sep |-> <<>>] :
              p \in ValueTexts \cup BrokenTexts \cup TopErrorTexts
                     \cup NestedErrorTexts }
    \cup { [parts |-> <<p, q>>, sep |-> s] :
              p \in ValueTexts, q \in ValueTexts \cup BrokenTexts,
              s \in Separators }
    \cup { [parts |-> <<p, q, r>>, sep |-> s] :
              p \in StreamTexts, q \in StreamTexts, r \in StreamTexts,
              s \in Separators }

\* response.text / response.content: the parts with the separator between
\* them.
RECURSIVE Join(_, _)
Join(ps, s) ==
    IF ps = <<>> THEN <<>>
    ELSE IF Len(ps) = 1 THEN ps[1]
    ELSE ps[1] \o s \o Join(Tail(ps), s)

Content == Join(parts, sep)

\* A good response (status ok, no 'LOG OUT MESSAGE') has arrived for a
\* request.
ResponseInit ==
    /\ ClientInit(FALSE)
    /\ NoVersion
    /\ NoRace
    /\ \E b \in BodyInputs : parts = b.parts /\ sep = b.sep
    /\ resources \in BOOLEAN
    /\ stage = "received"
    /\ verdict = NoResult
    /\ decoded = NoResult

\* _is_good_response on the response.
CheckResponse ==
    /\ stage = "received"
    /\ verdict' = ErrorCodeCheck(JsonDecoder(Content))
    /\ stage' = "checked"
    /\ UNCHANGED <<conn, sess, last_used_node, ctl, hist, track, vers, race,
                   parts, sep, resources, decoded>>

\* _make_request on the response that _send_request returned.
Decode ==
    /\ stage = "checked"
    /\ verdict = Returned(NoneV)
    /\ decoded' = DecodeResponse(Content, resources)
    /\ stage' = "decoded"
    /\ UNCHANGED <<conn, sess, last_used_node, ctl, hist, track, vers, race,
                   parts, sep, resources, verdict>>

ResponseNext == CheckResponse \/ Decode

ResponseSpec == ResponseInit /\ [][ResponseNext]_vars

(* ----------------------------- set_version ----------------------------- *)

Years == 2017..2023

MaxMinor == 4

MaxPatch == 5

\* Version strings of two and of three components.
VersionTexts ==
    { Decimal(y) \o <<".">> \o Decimal(m) :
          y \in Years, m \in 0..MaxMinor }
    \cup { Decimal(y) \o <<".">> \o Decimal(m) \o <<".">> \o Decimal(p) :
              y \in Years, m \in 0..MaxMinor, p \in 0..MaxPatch }

\* set_version is about to be called with version_arg.
VersionInit ==
    /\ \E cvaas \in BOOLEAN : ClientInit(cvaas)
    /\ NoResponse
    /\ NoRace
    /\ version_arg \in VersionTexts
    /\ version = <<>>
    /\ apiversion = NoApiVersion

\* set_version(version), called while no other call is in progress.
SetVersion ==
    /\ pc = "idle"
    /\ version' = version_arg
    /\ apiversion' = ApiVersion(is_cvaas, version_arg)
    /\ UNCHANGED <<conn, sess, last_used_node, ctl, hist, track, resp,
                   version_arg,
                   race>>

VersionNext == SetVersion

VersionSpec == VersionInit /\ [][VersionNext]_vars

\* The versions at the thresholds of set_version, and the one below the
\* lowest of them.
ThresholdTexts ==
    { Decimal(r[1]) \o <<".">> \o Decimal(r[2]) \o <<".">> \o Decimal(r[3]) :
          r \in { <<2018, 1, 9>>, <<2018, 2, 0>>, <<2019, 0, 0>>,
                  <<2020, 1, 1>>, <<2020, 2, 4>>, <<2021, 2, 0>>,
                  <<2021, 3, 0>>, <<2022, 1, 0>> } }

\* A new client, and the version its server will report.
ClientVersionInit ==
    /\ ClientInit(FALSE)
    /\ NoResponse
    /\ NoRace
    /\ version_arg \in ThresholdTexts
    /\ version = <<>>
    /\ apiversion = NoApiVersion

\* connect() and set_version() on one client, in any order.
ClientVersionNext ==
    \/ \E nl \in NodeLists, tok \in Tokens, d \in Deployments :
          Connect(nl, tok, d.is_cvaas, d.tenant)
    \/ \E out \in {"ok"} \cup CaughtLoginErrors \cup UncaughtLoginErrors :
          LoginStep(out)
    \/ Return
    \/ SetVersion

ClientVersionSpec == ClientVersionInit /\ [][ClientVersionNext]_vars


(* ------------------- two requests on one client ------------------------ *)

\* The client after connect(['h1'], username, password) has returned.
Connected ==
    /\ nodes = <<"h1">>
    /\ node_cnt = 1
    /\ cursor = 0
    /\ api_token = None
    /\ is_cvaas = FALSE
    /\ tenant = None
    /\ arg_api_token = None
    /\ session = "live"
    /\ url_host = "h1"
    /\ headers = {"APP_SESSION_ID"}
    /\ error_msg = <<>>
    /\ last_used_node = None
    /\ pc = "idle"
    /\ op = None
    /\ ctx = None
    /\ tries_left = 0
    /\ node_num = 0
    /\ req_try = 0
    /\ error = NoErr
    /\ req = NoUrl
    /\ full_url = NoFullUrl
    /\ result = NoErr
    /\ sends = 0
    /\ node_sends = 0
    /\ only_timeouts = TRUE
    /\ only_transport = TRUE
    /\ last_out = NoOutcome
    /\ last_body = NoBody
    /\ last_err = NoErr
    /\ last_host = None
    /\ logins = 0
    /\ login_posts = 0
    /\ reset_failed = FALSE
    /\ session_host = url_host
    /\ tried = <<>>

RaceInit == Connected /\ NoResponse /\ NoVersion /\ NoRace

\* What is left unchanged by every step of a request that shares the
\* client: all but the session, the headers and last_used_node.
RaceFrame ==
    UNCHANGED <<conn, url_host, cursor, error_msg, ctl, hist, track, resp,
                vers>>

\* How a send of a request ends: answered well, answered as logged out,
\* a timeout, a transport failure.
SendOutcomes == {"ok", "CvpSessionLogOutError", "ReadTimeout",
                 "ConnectionError"}

\* get/post/delete up to the first send of _send_request.
Start(t) ==
    /\ thr[t].pc = "idle"
    /\ IF session = None
       THEN /\ thr' = [thr EXCEPT ![t] = Idle("ValueError")]
            /\ UNCHANGED last_used_node
       ELSE /\ thr' = [thr EXCEPT ![t] = [pc |-> "send", req_try |-> 0,
                                          result |-> ""]]
            /\ last_used_node' = url_host
    /\ UNCHANGED <<session, headers, sent, writer, broken>>
    /\ RaceFrame

\* One send of _send_request, made with self.session and self.headers as
\* they are now, and what follows it up to the next statement that reads
\* or writes them.  This is the only node: an error that leaves
\* _send_request leaves the request.
Send(t, o) ==
    /\ thr[t].pc = "send"
    /\ o \in SendOutcomes
    /\ sent' = [sent EXCEPT ![t] =
                   [session |-> session, sid |-> "APP_SESSION_ID" \in headers,
                    writer |-> writer, broken |-> broken]]
    /\ thr' = [thr EXCEPT ![t] =
          IF session = None THEN Idle("AttributeError")
          ELSE IF o = "ok" THEN Idle("ok")
          ELSE IF o = "ConnectionError" THEN Idle(o)
          ELSE IF FinalTry(thr[t].req_try) THEN Idle(o)
          ELSE IF o = "ReadTimeout"
          THEN [thr[t] EXCEPT !.req_try = @ + 1]
          ELSE [thr[t] EXCEPT !.pc = "reset"]]
    /\ UNCHANGED <<session, headers, last_used_node, writer, broken>>
    /\ RaceFrame

\* _reset_session: self.session = requests.Session()
ResetNew(t) ==
    /\ thr[t].pc = "reset"
    /\ session' = "fresh"
    /\ writer' = t
    /\ thr' = [thr EXCEPT ![t].pc = "pop"]
    /\ UNCHANGED <<headers, last_used_node, sent, broken>>
    /\ RaceFrame

\* _login: self.headers.pop('APP_SESSION_ID', None)
ResetPop(t) ==
    /\ thr[t].pc = "pop"
    /\ headers' = headers \ {"APP_SESSION_ID"}
    /\ writer' = t
    /\ thr' = [thr EXCEPT ![t].pc = "login"]
    /\ UNCHANGED <<session, last_used_node, sent, broken>>
    /\ RaceFrame

\* Mutant of Authenticated: the session id of the answer is not put into
\* the headers.
Authenticated_NoSessionId(h) == h

\* self.headers once _login_on_prem has been answered well.
Authenticated(h) == h \cup {"APP_SESSION_ID"}

\* _login_on_prem and the rest of _reset_session, then the test of
\* self.session in _send_request.
ResetLogin(t, out) ==
    /\ thr[t].pc = "login"
    /\ out \in LoginOutcomes
    /\ IF session = None
       THEN /\ thr' = [thr EXCEPT ![t] = Idle("AttributeError")]
            /\ UNCHANGED <<session, headers, writer, broken>>
       ELSE IF out = "ok"
       THEN /\ headers' = Authenticated(headers)
            /\ session' = "live"
            /\ writer' = t
            /\ thr' = [thr EXCEPT ![t] = [pc |-> "send",
                                          req_try |-> thr[t].req_try + 1,
                                          result |-> ""]]
            /\ UNCHANGED broken
       ELSE IF out \in UncaughtLoginErrors
       THEN /\ thr' = [thr EXCEPT ![t] = Idle(out)]
            /\ broken' = TRUE
            /\ UNCHANGED <<session, headers, writer>>
       ELSE /\ session' = None
            /\ writer' = t
            /\ thr' = [thr EXCEPT ![t] = Idle("CvpSessionLogOutError")]
            /\ UNCHANGED <<headers, broken>>
    /\ UNCHANGED <<last_used_node, sent>>
    /\ RaceFrame

RaceNext ==
    \E t \in Threads :
        \/ Start(t)
        \/ \E o \in SendOutcomes : Send(t, o)
        \/ ResetNew(t)
        \/ ResetPop(t)
        \/ \E out \in LoginOutcomes : ResetLogin(t, out)

RaceSpec == RaceInit /\ [][RaceNext]_vars


(* ------------------------------- claims -------------------------------- *)

\* A request (get, post, delete, or the post of logout) is in progress or
\* has just ended.
InRequest == op \in {"request", "logout"}

\* The node-level attempt in progress has ended: _send_request has raised
\* into _make_request, which fails over or lets the error leave.
NodeAttemptEnded ==
    \/ pc = "done"
    \/ pc = "login" /\ ctx = "failover"

\* C1: a node-level attempt in which every transport attempt ended with a
\* timeout ends (with a failover, or with the error leaving the call) only
\* after exactly NUM_RETRY_REQUESTS attempts, all sent to the same node, and
\* the error it ends with is the timeout; until then the dispatcher is
\* about to send to that node again.
C1_RetryCeiling ==
    (InRequest /\ node_sends > 0 /\ only_timeouts) =>
        /\ last_err.cls \in {"ReadTimeout", "Timeout"}
        /\ IF node_sends = 3
           THEN /\ NodeAttemptEnded
                /\ logins = 0 => IF pc = "done" THEN result = last_err
                                                ELSE error = last_err
           ELSE /\ node_sends < 3
                /\ pc = "send"
                /\ url_host = last_host
                /\ req_try = node_sends

C1_Witness ==
    /\ InRequest /\ only_timeouts /\ node_sends = 3
    /\ pc = "login" /\ ctx = "failover"


\* C2: once a transport attempt has ended with a ConnectionError, an
\* HTTPError or a TooManyRedirects, the node receives no further attempt in
\* this node-level attempt and no reset is run on it: the step that follows
\* the attempt is the node-level handler, which starts the failover to the
\* other nodes (or, on the final node-level attempt, lets the error leave).
C2_TransportAbortsNode ==
    (InRequest /\ last_err.cls \in {"ConnectionError", "HTTPError",
                                    "TooManyRedirects"}) =>
        /\ ~(pc = "login" /\ ctx = "reset")
        /\ ~(pc = "send" /\ node_sends > 0)
        /\ ~reset_failed
        /\ logins = 0 =>
              IF node_num + 1 = node_cnt
              THEN pc = "done" /\ result = last_err
              ELSE /\ pc = "login" /\ ctx = "failover"
                   /\ error = last_err
                   /\ tries_left = node_cnt - 1

C2_Witness ==
    /\ InRequest /\ last_err.cls = "HTTPError" /\ node_sends = 1
    /\ logins = 0 /\ pc = "login" /\ ctx = "failover"


\* The answer to the latest transport attempt was classified as logged
\* out while tries remained on the node.
LoggedOutWithTriesLeft ==
    /\ InRequest
    /\ last_err.cls = "CvpSessionLogOutError"
    /\ 0 < node_sends /\ node_sends < 3

C3_Inv ==
    LoggedOutWithTriesLeft =>
        /\ logins = 0 =>
              /\ pc = "login" /\ ctx = "reset"
              /\ session = "fresh"
              /\ url_host = last_host
              /\ req_try = node_sends - 1
        /\ pc = "send" =>
              /\ logins = 1
              /\ session = "live"
              /\ url_host = last_host
              /\ req_try = node_sends

\* C3: a logged-out answer while tries remain on the node is followed by a
\* reset, a login on the same node; the next transport attempt comes after
\* exactly one such login, goes to the same node, and is the next try of
\* the same budget (req_try goes on counting); neither the reset nor the
\* return from it moves the rotation cursor or the selected node.
C3_ResetThenRetry ==
    /\ []C3_Inv
    /\ [][ (\/ pc' = "login" /\ ctx' = "reset"
            \/ pc = "login" /\ ctx = "reset" /\ pc' = "send")
           => /\ cursor' = cursor
              /\ url_host' = url_host
              /\ node_num' = node_num ]_vars

C3_Witness ==
    /\ LoggedOutWithTriesLeft /\ pc = "send" /\ logins = 1 /\ node_sends = 2


\* The error of the latest transport attempt is one that resets the
\* session: logged out, or a CvpApiError with an unauthorized message.
LastErrInvalidatesSession ==
    \/ last_err.cls = "CvpSessionLogOutError"
    \/ /\ last_err.cls = "CvpApiError"
       /\ last_err.msg \cap {"Unauthorized", "User is unauthorized"} # {}

\* C4 as stated: once the same-node reset has yielded no session, the
\* request has ended with the error of the attempt, and no failover runs.
C4_AbortsWithoutFailover ==
    (InRequest /\ reset_failed) => (pc = "done" /\ result = last_err)

\* C4 as the code has it: when the same-node reset yields no session,
\* _send_request raises the logged-out / unauthorized error into the
\* node-level loop.  On the final node-level attempt the error leaves the
\* call at once (one login, the reset, since the attempt).  Otherwise a
\* failover to the other nodes is started with that error held, and the
\* call ends only when the failover is out of nodes (node_cnt logins since
\* the attempt, the error raised is the held one) or its login raises an
\* error that _reset_session does not catch.
C4_ResetFailureFailsOver ==
    (InRequest /\ reset_failed) =>
        /\ LastErrInvalidatesSession
        /\ session # "live"
        /\ IF node_num + 1 = node_cnt
           THEN pc = "done" /\ result = last_err /\ session = None
                /\ logins = 1
           ELSE \/ /\ pc = "login" /\ ctx = "failover"
                   /\ error = last_err
                   /\ logins = node_cnt - tries_left
                \/ /\ pc = "done" /\ result = last_err /\ session = None
                   /\ logins = node_cnt
                \/ /\ pc = "done" /\ session = "fresh"
                   /\ result.cls \in {"CvpLoginError", "JSONDecodeError"}

C4_Witness ==
    /\ InRequest /\ reset_failed /\ pc = "login" /\ ctx = "failover"
    /\ logins = 1 /\ last_err.cls = "CvpSessionLogOutError"


\* The transport attempt just made was answered, with a non-success
\* status.
JustAnsweredNotOk ==
    /\ InRequest /\ logins = 0
    /\ last_out.exc = None
    /\ ~last_out.resp.ok

\* How a logged-out answer is handled, right after the attempt: a reset
\* on the same node while tries remain, else the node-level handler
\* (failover, or the error leaves on the final node-level attempt).
HandledAsLoggedOut ==
    IF node_sends < NUM_RETRY_REQUESTS
    THEN /\ pc = "login" /\ ctx = "reset"
         /\ url_host = last_host
         /\ error = last_err
    ELSE IF node_num + 1 = node_cnt
    THEN pc = "done" /\ result = last_err
    ELSE pc = "login" /\ ctx = "failover" /\ error = last_err

\* C5 as stated: a non-success answer whose reason holds either marker,
\* 'Unauthorized' or 'User is unauthorized', is handled as a logged-out
\* answer is.
C5_EitherMarkerInReason ==
    (/\ JustAnsweredNotOk
     /\ last_out.resp.reason \cap {"Unauthorized", "User is unauthorized"}
           # {})
        => HandledAsLoggedOut

\* C5 as the code has it: a non-success answer is unauthorized when its
\* reason holds 'Unauthorized' or its body text holds 'User is
\* unauthorized'; it is then raised as a CvpApiError whose message holds
\* the marker, and handled as a logged-out answer is.  Any other
\* non-success answer, also one whose reason alone holds 'User is
\* unauthorized', is a CvpRequestError and leaves the call.
C5_UnauthorizedAnswer ==
    JustAnsweredNotOk =>
        IF \/ "Unauthorized" \in last_out.resp.reason
           \/ "User is unauthorized" \in last_out.resp.text
        THEN /\ last_err.cls = "CvpApiError"
             /\ last_err.msg \cap {"Unauthorized", "User is unauthorized"}
                   # {}
             /\ HandledAsLoggedOut
        ELSE /\ last_err.cls = "CvpRequestError"
             /\ pc = "done" /\ result = last_err

C5_Witness ==
    /\ JustAnsweredNotOk
    /\ "User is unauthorized" \in last_out.resp.text
    /\ "Unauthorized" \notin last_out.resp.reason
    /\ pc = "login" /\ ctx = "reset"


\* The transport attempt just made was answered with a success status
\* and a body that is error-coded JSON, not the logged-out page.
JustAnsweredErrorCoded ==
    /\ InRequest /\ logins = 0
    /\ last_out.exc = None
    /\ last_out.resp.ok /\ ~last_out.resp.logout /\ last_out.resp.errcode

\* The error leaves the call right after the attempt that produced it:
\* no reset, no failover, the client still on the node that answered.
PropagatedAtOnce ==
    /\ pc = "done" /\ result = last_err
    /\ url_host = last_host /\ session # None

Running == InRequest /\ pc # "done"

\* The place of a running request in its longest possible course: the
\* node-level attempts left, less the progress made within this one.
Measure ==
    LET W == 2 * NUM_RETRY_REQUESTS + node_cnt + 1
        pos == IF pc = "send" THEN 2 * req_try
               ELSE IF ctx = "reset" THEN 2 * req_try + 1
               ELSE 2 * NUM_RETRY_REQUESTS + (node_cnt - tries_left)
    IN  (node_cnt - node_num) * W - pos

C7_Bounds ==
    InRequest =>
        /\ node_sends <= NUM_RETRY_REQUESTS
        /\ sends > 0 =>
              /\ node_num + 1 <= node_cnt
              /\ sends <= NUM_RETRY_REQUESTS * node_num + node_sends
              /\ sends <= NUM_RETRY_REQUESTS * node_cnt
        /\ Running => (node_num + 1 <= node_cnt /\ Measure > 0)

\* C7: every get/post/delete returns or raises; it makes at most
\* node_cnt node-level attempts of at most NUM_RETRY_REQUESTS transport
\* attempts each, so at most NUM_RETRY_REQUESTS * node_cnt transport
\* attempts, whatever the nodes answer.  Every step of a running request
\* either ends it or lowers a positive measure, and under fair
\* scheduling of the exchanges a running request ends.
C7_Terminates ==
    /\ []C7_Bounds
    /\ [][(Running /\ pc' # "done") => (Running' /\ Measure' < Measure)]_vars
    /\ (Running ~> pc = "done")

C7_Witness ==
    /\ op = "request" /\ pc = "done"
    /\ sends > 0
    /\ node_cnt > 1
    /\ node_num + 1 = node_cnt
    /\ sends = NUM_RETRY_REQUESTS * node_cnt
    /\ ~only_timeouts

\* Every exchange with a node ends: the request methods are called with a
\* timeout, so each transport attempt and each login returns or raises,
\* and the caller takes the result.
LiveSpec ==
    /\ Spec
    /\ WF_vars(\E o \in Outcomes : SendStep(o))
    /\ WF_vars(\E out \in LoginOutcomes : LoginStep(out))


\* The request is in its last node-level attempt.
OnLastNodeAttempt == Running /\ node_num + 1 = node_cnt

\* The transport attempt made by this step ended the same-node loop with
\* an error that _make_request fails over on: a transport failure, or a
\* timeout or session invalidation on the final try.
ExhaustsRetryable ==
    /\ pc = "send"
    /\ FailsOver(last_err')
    /\ \/ last_err'.cls \in TransportErrors
       \/ req_try + 1 = NUM_RETRY_REQUESTS

C8_Step ==
    OnLastNodeAttempt =>
        /\ ExhaustsRetryable =>
              /\ pc' = "done"
              /\ result' = last_err'
              /\ logins' = 0
        /\ cursor' = cursor /\ url_host' = url_host
        /\ node_num' = node_num
        /\ ~(pc' = "login" /\ ctx' = "failover")

\* C8: when the last (node_cnt-th) node-level attempt ends with an error
\* that is failed over on, the error leaves to the caller: no failover
\* starts, no login is made, the rotation cursor and the node stay, and
\* no step of the last node-level attempt rotates.
C8_LastNodePropagates == [][C8_Step]_vars

C8_Witness ==
    /\ op = "request" /\ pc = "done"
    /\ sends > 0 /\ logins = 0
    /\ node_cnt > 1 /\ node_num + 1 = node_cnt
    /\ node_sends = NUM_RETRY_REQUESTS
    /\ result.cls \in TimeoutErrors /\ result = last_err


\* A request has failed after an error that is retried or failed over on.
FailedAfterRetryable ==
    /\ InRequest /\ pc = "done"
    /\ sends > 0
    /\ FailsOver(last_err)

\* C9: when a get/post/delete fails after errors that are retried or
\* failed over on, the error raised is the one of the most recent
\* transport attempt, never a login error.
C9_LastTransportError ==
    FailedAfterRetryable => result = last_err

\* C9 holds of the logins whose error _reset_session catches.
C9_CaughtLoginsOnly ==
    (FailedAfterRetryable /\ result.cls \notin UncaughtLoginErrors)
        => result = last_err

\* C10: while no session is live, a get/post/delete (or logout) fails
\* with the no-valid-session ValueError, and makes no transport attempt,
\* no login and no rotation.
C10_Step ==
    (pc = "idle" /\ session # "live" /\ InRequest') =>
        /\ pc' = "done"
        /\ result' = Err("ValueError", {})
        /\ cursor' = cursor /\ url_host' = url_host /\ session' = session

C10_NoSessionNoRequest == [][C10_Step]_vars

\* C10 holds when self.session is None.
C10_NoneSessionOnly ==
    [][(session = None /\ pc = "idle") => C10_Step]_vars


\* connect() is under way or has just ended, on a node list with nodes.
InConnect == op = "connect" /\ node_cnt > 0

\* The nodes whose login failed are the first nodes of the list, in order.
FailedInListOrder ==
    \A i \in 1..Len(error_msg) : error_msg[i][1] = nodes[i]

\* C11: connect tries the nodes in list order from the first, stops at
\* the first node whose login succeeds and selects it, tries no later
\* node, and leaves the rotation cursor just after the selected node.
C11_ConnectInOrder ==
    InConnect =>
        /\ FailedInListOrder
        /\ pc = "login" =>
              /\ url_host = nodes[logins + 1]
              /\ Len(error_msg) = logins
              /\ cursor = (logins + 1) % node_cnt
        /\ (pc = "done" /\ result = Ok) =>
              /\ session = "live"
              /\ logins \in 1..node_cnt
              /\ url_host = nodes[logins]
              /\ Len(error_msg) = logins - 1
              /\ cursor = logins % node_cnt

C11_Witness ==
    /\ InConnect /\ pc = "done" /\ result = Ok
    /\ node_cnt = 3 /\ logins = 3
    /\ url_host = nodes[3] /\ cursor = 0


\* connect() has raised on a node list with nodes: no login succeeded.
ConnectFailed == InConnect /\ pc = "done" /\ result # Ok

\* The connect failure: CvpLoginError, no session, and one (node, error)
\* line per node of the list, in list order, each node tried once.
AggregateFailure ==
    /\ result.cls = "CvpLoginError"
    /\ session = None
    /\ logins = node_cnt
    /\ Len(error_msg) = node_cnt
    /\ FailedInListOrder

\* C12: when the login fails on every node of a non-empty list, connect
\* raises the connect failure, the session is None, and the error holds
\* one (node, reason) entry per node in the order tried.
C12_AllNodesFail ==
    ConnectFailed => AggregateFailure

\* C12 holds of the connects whose login errors _reset_session catches.
C12_CaughtLoginsOnly ==
    (ConnectFailed /\ PostsLogin /\ result.cls # "JSONDecodeError")
        => AggregateFailure


\* A login of a failover (_create_session with all_nodes False) is due.
InFailover == InRequest /\ pc = "login" /\ ctx = "failover"

\* The logins the failover under way has made so far: those since the
\* latest transport attempt, less the login of a reset that failed first.
FailoverLogins == logins - (IF reset_failed THEN 1 ELSE 0)

\* Index (from 0) in the node list of the node a login is due on: the
\* one just before the rotation cursor.
SelectedIdx == (cursor + node_cnt - 1) % node_cnt

\* Index (from 0) of the node that was in use when the failover under
\* way began: the one before the first node the failover selected.
InUseIdx == (cursor + 2 * node_cnt - 2 - FailoverLogins) % node_cnt

NoDuplicateNodes ==
    \A i, j \in 1..Len(nodes) : nodes[i] = nodes[j] => i = j

\* C13: a failover on a pool of more than one node makes at most
\* node_cnt - 1 login attempts and none on the node that was in use when
\* it began; with one node _create_session makes one attempt (num_nodes
\* stays 1), on that node.
C13_FailoverSkipsCurrent ==
    /\ InFailover =>
          /\ node_cnt > 1
          /\ FailoverLogins + 1 <= node_cnt - 1
          /\ tries_left = node_cnt - 1 - FailoverLogins
          /\ nodes[InUseIdx + 1] = last_host
          /\ url_host = nodes[SelectedIdx + 1]
          /\ SelectedIdx # InUseIdx
          /\ NoDuplicateNodes => url_host # last_host
    /\ (InRequest /\ node_cnt = 1) =>
          /\ NumNodes(FALSE) = 1
          /\ nodes[SelectedIdx + 1] = url_host

C13_Witness ==
    /\ InFailover
    /\ node_cnt = 3 /\ FailoverLogins = 1 /\ tries_left = 1
    /\ url_host # last_host


\* This step selects a node: _create_session takes next(self.node_pool),
\* for connect or for a failover, and a login on that node is due.
SelectsNode == pc' = "login" /\ ctx' \in {"connect", "failover"}

\* The node in use, or on which a login is due, is the one just before
\* the rotation cursor.
C14_Inv ==
    (node_cnt > 0 /\ url_host # None) => url_host = nodes[SelectedIdx + 1]

C14_Step ==
    SelectsNode =>
        IF pc = "idle"
        THEN /\ op' = "connect"
             /\ url_host' = nodes'[1]
             /\ cursor' = 1 % node_cnt'
        ELSE /\ UNCHANGED <<nodes, node_cnt>>
             /\ url_host = nodes[SelectedIdx + 1]
             /\ SelectedIdx' = (SelectedIdx + 1) % node_cnt
             /\ url_host' = nodes[SelectedIdx' + 1]

\* C14: from a connect on, through the failovers that follow, the nodes
\* are selected in cyclic list order: connect selects the first node
\* first, and every later selection is the successor, modulo node_cnt,
\* of the selection before it.
C14_RoundRobin == []C14_Inv /\ [][C14_Step]_vars

C14_Witness ==
    /\ op = "request" /\ pc = "send"
    /\ node_cnt = 3 /\ node_num = 2
    /\ url_host = nodes[3] /\ cursor = 0
    /\ last_host = nodes[2]


\* This step starts the login of a same-node reset, or is that login
\* with what follows it short of a failover.
ResetStep ==
    \/ pc' = "login" /\ ctx' = "reset"
    \/ pc = "login" /\ ctx = "reset" /\ ~SelectsNode

C15_Step ==
    /\ ResetStep => (cursor' = cursor /\ url_host' = url_host)
    /\ (pc = "login" /\ ctx = "reset" /\ pc' = "send") =>
          (url_host' = last_host /\ session' = "live")
    /\ cursor' # cursor =>
          \/ /\ pc = "idle" /\ op' = "connect"
             /\ cursor' = IF node_cnt' = 0 THEN 0 ELSE 1 % node_cnt'
          \/ pc # "idle" /\ SelectsNode /\ cursor' = (cursor + 1) % node_cnt
    /\ (SelectsNode /\ pc # "idle") => cursor' = (cursor + 1) % node_cnt

\* C15: a reset never moves the rotation cursor and logs in on the node
\* that was selected before it, whether the login succeeds or fails; the
\* cursor moves only by one, modulo node_cnt, per node selection, and
\* only connect sets it back to the head of the list.
C15_ResetKeepsCursor == [][C15_Step]_vars

C15_Witness ==
    /\ op = "request" /\ pc = "send"
    /\ logins = 1 /\ node_sends = 1
    /\ node_cnt = 3 /\ cursor = 2
    /\ url_host = last_host /\ url_host = nodes[2]


\* This step is a login that failed and ended the call: after a login
\* that succeeds a connect returns Ok and a request goes on to send.
FailedLoginEndsCall == pc = "login" /\ pc' = "done" /\ result' # Ok

\* C16: after a login attempt that fails, in connect, failover or reset
\* and whatever the failure, self.session is None; a session that is not
\* None is therefore one that logged in.
C16_FailedLoginNoSession ==
    [][FailedLoginEndsCall => session' = None]_vars

\* C16 holds of the login errors that _reset_session catches.
C16_CaughtLoginsOnly ==
    [][(FailedLoginEndsCall /\ PostsLogin
           /\ result'.cls # "JSONDecodeError") => session' = None]_vars


\* connect() was called for the hosted service without a token, and has
\* ended.
HostedNoTokenConnected ==
    /\ InConnect /\ pc = "done"
    /\ is_cvaas /\ arg_api_token = None

\* The configuration error of _login, raised at the first node before
\* any POST.
ConfigurationError ==
    /\ result.cls = "CvpLoginError"
    /\ logins = 1 /\ login_posts = 0
    /\ Len(error_msg) = 0

\* C17: with is_cvaas set and no token supplied, connect raises the
\* login configuration error without a network request to any node.
C17_HostedNeedsToken ==
    HostedNoTokenConnected => ConfigurationError

\* C17 holds when no earlier connect() of the client was given a token.
C17_NoEarlierToken ==
    (HostedNoTokenConnected /\ api_token = None) => ConfigurationError


\* A login is due on a client whose latest connect() was given a token.
TokenLoginDue == pc = "login" /\ arg_api_token # None

C18_Step ==
    TokenLoginDue =>
        /\ api_token = arg_api_token
        /\ logins' = logins + 1
        /\ login_posts' = login_posts
        /\ session' = "live"
        /\ "Authorization" \in headers'
        /\ UNCHANGED <<url_host, cursor>>
        /\ CASE ctx = "connect" ->
                  /\ pc' = "done" /\ result' = Ok
                  /\ logins' = 1
                  /\ url_host' = nodes[1]
             [] ctx = "failover" ->
                  pc' = "send" /\ node_num' = node_num + 1
             [] ctx = "reset" ->
                  pc' = "send" /\ node_num' = node_num

\* C18: when a token was supplied, every login, of connect, failover or
\* reset, sends nothing to the node, succeeds, and leaves the
\* Authorization header set; so connect selects the first node of the
\* list, reachable or not.
C18_TokenLogin == [][C18_Step]_vars

C18_Witness ==
    /\ InConnect /\ pc = "done" /\ result = Ok
    /\ arg_api_token # None
    /\ node_cnt > 1 /\ url_host = nodes[1]
    /\ logins = 1 /\ login_posts = 0
    /\ "Authorization" \in headers


\* The login made by this step is in the mode that the credentials of
\* the latest connect() call for: with a token, the Authorization header
\* and no POST; without, the username/password POST (which the hosted
\* service refuses before it is sent).
ModeOfLatestConnect ==
    IF arg_api_token # None
    THEN login_posts' = login_posts /\ "Authorization" \in headers'
    ELSE is_cvaas \/ login_posts' = login_posts + 1

\* C19: every login uses the auth mode given by the credentials of the
\* most recent connect(): bearer token if a token was supplied,
\* username/password if none was.
C19_AuthModeOfLatestConnect ==
    [][pc = "login" => ModeOfLatestConnect]_vars

\* C19 holds as long as self.api_token is the token of the latest
\* connect().
C19_NoEarlierToken ==
    [][(pc = "login" /\ api_token = arg_api_token)
          => ModeOfLatestConnect]_vars


\* C20: a connected client has a node list with nodes: a connect() with
\* an empty list never leaves a live session, and next(self.node_pool) is
\* never called on an empty list.
C20_NonEmptyNodeList ==
    /\ [](session = "live" => Len(nodes) > 0)
    /\ [][SelectsNode => Len(nodes') > 0]_vars

\* C20 holds but for the session that an earlier connect() left: no node
\* is selected from an empty list, and a connect() with an empty list on
\* a client without a session raises CvpLoginError.
C20_FirstConnectOnly ==
    /\ [][SelectsNode => Len(nodes') > 0]_vars
    /\ [][(pc = "idle" /\ op' = "connect" /\ Len(nodes') = 0
              /\ session = None)
            => (pc' = "done" /\ result'.cls = "CvpLoginError"
                  /\ session' = None)]_vars


\* The request of logout() has been answered with a good response whose
\* body decodes to a JSON object: the service has reported something.
LogoutAnswered ==
    /\ pc = "send" /\ op = "logout" /\ last_err' = NoErr
    /\ last_body' \in {"data_success", "data_other", "no_data"}

\* C21: a logout whose request the service answers raises nothing; it
\* clears the session if the service reported success, and leaves the
\* session and its node exactly as they were if it reported anything else.
C21_LogoutNeverRaises ==
    [][LogoutAnswered
         => /\ pc' = "done" /\ result' = Ok
            /\ IF last_body' = "data_success"
               THEN session' = None
               ELSE session' = session /\ url_host' = url_host]_vars

\* C21 holds for the answers that logout() can read: a body that decodes
\* to an object with a data key.
C21_AnswersWithData ==
    [][(LogoutAnswered /\ last_body' # "no_data")
         => /\ pc' = "done" /\ result' = Ok
            /\ IF last_body' = "data_success"
               THEN session' = None
               ELSE session' = session /\ url_host' = url_host]_vars


\* C22: after a get/post/delete that made at least one transport attempt,
\* last_used_node is the node the most recent attempt was sent to.
C22_LastUsedNode ==
    (op = "request" /\ pc = "done" /\ sends > 0)
        => last_used_node = last_host

\* C22 holds for the requests that ended on the node they started on.
C22_WithoutFailover ==
    (op = "request" /\ pc = "done" /\ sends > 0 /\ node_num = 0)
        => last_used_node = last_host



\* The JSON value that a text holds.
ValueOf(text) == Loads(text).val

\* The body is two or more values, each an object or a list, with nothing
\* between them.
BackToBack ==
    /\ Len(parts) >= 2 /\ sep = <<>>
    /\ \A i \in 1..Len(parts) :
          parts[i] \in ValueTexts /\ parts[i][1] \in {"{", "["}

\* The body is two or more values with one newline between each two.
NewlineBetween ==
    /\ Len(parts) >= 2 /\ sep = <<"\n">>
    /\ \A i \in 1..Len(parts) :
          parts[i] \in ValueTexts /\ parts[i][1] \notin Whitespace

\* {'data': [v1, ..., vk]} for the values of the parts.
DataOfParts ==
    Returned(DataV(ListV([i \in 1..Len(parts) |-> ValueOf(parts[i])])))

\* C23: a good response whose body is k >= 2 JSON values back to back
\* decodes to {data: [v1, ..., vk]}: those values, in body order, and
\* nothing else.
C23_BackToBackValues ==
    (stage = "decoded" /\ BackToBack) => decoded = DataOfParts

\* C23 holds for the bodies with exactly one character between each two
\* values.
C23_OneCharacterBetween ==
    (stage = "decoded" /\ NewlineBetween) => decoded = DataOfParts


\* C24: a good response whose body is empty or the literal null decodes
\* to {data: []}, on a resources path and on any other.
C24_EmptyBody ==
    (stage = "decoded" /\ Content \in {<<>>, <<"n", "u", "l", "l">>})
        => decoded = Returned(DataV(ListV(<<>>)))

C24_Witness ==
    /\ stage = "decoded" /\ resources
    /\ Content = <<"n", "u", "l", "l">>
    /\ decoded = Returned(DataV(ListV(<<>>)))


\* The body is one JSON value, and not the literal null.
OneValue ==
    Len(parts) = 1 /\ parts[1] \in ValueTexts /\ Content # <<"n", "u", "l", "l">>

\* The value is an object with a result key.
HasResultKey(v) ==
    v.t = "dict" /\ \E j \in 1..Len(v.keys) : v.keys[j] = StrV(Name_result)

\* C25: a body of exactly one JSON value decodes to that value, unwrapped,
\* except that a value with a result key on a resources path is returned
\* as {data: [value]}.
C25_SingleValue ==
    (stage = "decoded" /\ OneValue)
        => decoded = Returned(IF resources /\ HasResultKey(ValueOf(Content))
                              THEN DataV(ListV(<<ValueOf(Content)>>))
                              ELSE ValueOf(Content))

\* C25 holds for the bodies whose value is an object.
C25_SingleObject ==
    (stage = "decoded" /\ OneValue /\ ValueOf(Content).t = "dict")
        => decoded = Returned(IF resources /\ HasResultKey(ValueOf(Content))
                              THEN DataV(ListV(<<ValueOf(Content)>>))
                              ELSE ValueOf(Content))


\* response.json() fails because input is left behind the first value.
ExtraData == Loads(Content) = LoadFailed(TRUE)

\* The number of values that the pass of json_decoder finds.
Found == Len(DecodedData(Content, 0, <<>>))

\* C26 as stated: when the single-value parse fails on trailing input and
\* the value-by-value pass finds exactly one value, the request returns
\* that value itself.
C26_SingleFoundUnwrapped ==
    (stage = "decoded" /\ ExtraData /\ Found = 1)
        => decoded = Returned(RawDecode(Content, 0).val)

\* C26: when the single-value parse fails on trailing input, the request
\* returns {data: v} for the one value v that the value-by-value pass
\* finds (v itself under data, not in a list), and {data: [...]} with the
\* list of the values found when it finds none or several.
C26_SingleFoundUnderData ==
    (stage = "decoded" /\ ExtraData)
        => IF Found = 1
           THEN decoded = Returned(DataV(RawDecode(Content, 0).val))
           ELSE /\ decoded.raised = ""
                /\ decoded.val.keys = DataV(NoneV).keys
                /\ decoded.val.items[1].t = "list"
                /\ Len(decoded.val.items[1].items) = Found

C26_Witness ==
    /\ stage = "decoded" /\ ExtraData /\ Found = 1
    /\ RawDecode(Content, 0).val = ListV(<<NumV(1)>>)
    /\ decoded = Returned(DataV(ListV(<<NumV(1)>>)))


\* C27: a good response whose body is not JSON, for another reason than
\* extra data, ends the request with the parse failure itself: no retry,
\* no reset, no failover, and session, node and cursor stay as they were.
C27_ParseFailurePropagates ==
    [][(pc = "send" /\ last_err' = NoErr /\ last_body' = "bad_json")
         => /\ pc' = "done"
            /\ result' = Err("JSONDecodeError", {})
            /\ session' = session
            /\ url_host' = url_host
            /\ cursor' = cursor]_vars

C27_Witness ==
    /\ op = "request" /\ pc = "done" /\ last_body = "bad_json"
    /\ result.cls = "JSONDecodeError" /\ session = "live"


\* C30: whenever an attempt is about to be sent, the request URL is the
\* routing of the path, the hosted flag and the selected node: the bare
\* host prefix for a path with '/api/' or '/cvpservice/', else
\* '/cvpservice' in hosted mode and '/web' otherwise; its host is the
\* node selected now, also after a failover.
C30_UrlRouting ==
    pc = "send" =>
        /\ full_url.host = url_host
        /\ full_url.prefix =
              IF req.api \/ req.cvpservice THEN <<>>
              ELSE IF is_cvaas THEN <<"/cvpservice">>
              ELSE <<"/web">>

\* A '/cvpservice/' path is about to be sent in hosted mode to the node
\* that a failover selected.
C30_Witness ==
    /\ pc = "send" /\ node_num > 0 /\ is_cvaas
    /\ req.cvpservice /\ ~req.api
    /\ full_url = [host |-> url_host, prefix |-> <<>>]
    /\ url_host # last_used_node


\* joutput of _is_good_response for the body.
Joutput == JsonDecoder(Content)

\* A truthy errorCode at any depth of the dicts and lists of v.
RECURSIVE HasTruthyErrorCode(_)
HasTruthyErrorCode(v) ==
    \/ /\ v.t = "dict" /\ In(Name_errorCode, v)
       /\ Truthy(Item(v, Name_errorCode))
    \/ /\ v.t \in {"dict", "list"}
       /\ \E j \in 1..Len(v.items) : HasTruthyErrorCode(v.items[j])

\* The lines of the message: errorMessage if present, else the errors
\* list, else the error code.
ExpectedMessage(j) ==
    IF j.t = "dict" /\ In(Name_errorMessage, j)
    THEN <<Item(j, Name_errorMessage)>>
    ELSE IF j.t = "dict" /\ In(Name_errors, j)
    THEN Item(j, Name_errors).items
    ELSE <<FindItem(j, Name_errorCode)>>

\* C28: a good response whose decoded body holds a truthy errorCode at
\* any depth is classified as CvpApiError, with the message from
\* errorMessage if present, else from the errors list, else the code.
C28_ErrorCodeAtAnyDepth ==
    (stage # "received" /\ HasTruthyErrorCode(Joutput))
        => verdict = ApiError(ExpectedMessage(Joutput))

\* C28 holds for an errorCode at the top level of an object, unless the
\* message would come from an empty errors list.
C28_ErrorCodeAtTopLevel ==
    (/\ stage # "received"
     /\ Joutput.t = "dict"
     /\ In(Name_errorCode, Joutput)
     /\ Truthy(Item(Joutput, Name_errorCode))
     /\ ExpectedMessage(Joutput) # <<>>)
        => verdict = ApiError(ExpectedMessage(Joutput))


\* The release numbers of self.version: year, minor, and the patch, 0 if
\* the version has two components.
VersionRelease == Release(Split(version, 0, <<>>))

Patch == IF Len(VersionRelease) >= 3 THEN VersionRelease[3] ELSE 0

\* self.version is below y.m.p / at least y.m.p.
Below(y, m, p) ==
    \/ VersionRelease[1] < y
    \/ VersionRelease[1] = y /\ VersionRelease[2] < m
    \/ VersionRelease[1] = y /\ VersionRelease[2] = m /\ Patch < p

AtLeast(y, m, p) == ~Below(y, m, p)

\* C29: set_version resolves the api version by the threshold table, a
\* version of two components counting as padded with .0, and to the
\* newest api version in hosted mode whatever the version.
C29_VersionTable ==
    apiversion # NoApiVersion =>
        IF is_cvaas THEN apiversion = 8
        ELSE /\ Below(2018, 2, 0) => apiversion = 1
             /\ (AtLeast(2018, 2, 0) /\ Below(2019, 0, 0)) => apiversion = 2
             /\ (AtLeast(2019, 0, 0) /\ Below(2020, 1, 1)) => apiversion = 3
             /\ (AtLeast(2020, 1, 1) /\ Below(2020, 2, 4)) => apiversion = 4
             /\ (AtLeast(2020, 2, 4) /\ Below(2021, 2, 0)) => apiversion = 5
             /\ (VersionRelease[1] = 2021 /\ VersionRelease[2] = 2)
                   => apiversion = 6
             /\ (VersionRelease[1] = 2021 /\ VersionRelease[2] = 3)
                   => apiversion = 7
             /\ AtLeast(2022, 1, 0) => apiversion = 8

\* A version of two components has been resolved as 2020.2.0.
C29_Witness ==
    /\ ~is_cvaas
    /\ version = <<"2", "0", "2", "0", ".", "2">>
    /\ apiversion = 4


\* connect() was called for the hosted service with a token and without a
\* tenant, on a node list with nodes, and has ended.
HostedTokenNoTenantConnected ==
    /\ InConnect /\ pc = "done"
    /\ is_cvaas /\ arg_api_token # None /\ tenant = None

\* C31: a connect with is_cvaas and a token but without a tenant is
\* rejected: it never leaves a live session.
C31_HostedTokenNeedsTenant ==
    HostedTokenNoTenantConnected => session # "live"


\* What a send was made with is a torn session: a transport handle that
\* has not been authenticated, headers without the session id, or no
\* session at all.
Torn(s) == s.session # "-" /\ (s.session # "live" \/ ~s.sid)

\* C32: when two requests share the client without mutual exclusion, one
\* of them can send with a torn session (C32_Witness), and every send
\* with a torn session is due to the reset of the other request: the
\* session was last written by the other request, unless a reset has
\* ended with an error that _reset_session does not catch.
C32_TornOnlyByOther ==
    \A t \in Threads :
        Torn(sent[t]) => (sent[t].writer # t \/ sent[t].broken)

\* Request 1 has sent with the new, unauthenticated handle and without the
\* session id while the reset of request 2 is at its login.
C32_Witness ==
    /\ sent[1] = [session |-> "fresh", sid |-> FALSE, writer |-> 2,
                  broken |-> FALSE]
    /\ thr[2].pc = "login"

(* --------------------- the session and its node ------------------------ *)

C34_ApiVersionUnsetUntilResolved ==
    /\ [](IF version = <<>> THEN apiversion = NoApiVersion
                            ELSE apiversion \in 1..8)
    /\ [][(op = "connect" \/ op' = "connect") => apiversion' = apiversion]_vars

\* The version was resolved in hosted mode, and a later connect to an
\* on-premises node has left the resolved value as it was.
C34_Witness ==
    /\ pc = "done" /\ op = "connect" /\ result = Ok /\ session = "live"
    /\ ~is_cvaas
    /\ version = <<"2", "0", "1", "8", ".", "1", ".", "9">>
    /\ apiversion = 8

(* ---------------- errors that leave the session alone ------------------ *)

\* e is a CvpRequestError, or a CvpApiError whose message holds neither
\* unauthorized marker.
Rejection(e) ==
    \/ e.cls = "CvpRequestError"
    \/ e.cls = "CvpApiError" /\ ~IsUnauthorizedMsg(e.msg)

\* C35: a transport attempt that ends with a CvpRequestError, or with a
\* CvpApiError that is not unauthorized, ends the call with that error and
\* leaves self.session, the url prefix, the node pool position and
\* self.headers (the session id with them) as they were before the
\* attempt.
C35_RejectionFrame ==
    [][(pc = "send" /\ Rejection(last_err'))
          => /\ pc' = "done" /\ result' = last_err'
             /\ session' = session
             /\ url_host' = url_host
             /\ cursor' = cursor
             /\ headers' = headers]_vars

\* A CvpRequestError has left a request on a node that is not the last
\* of the pool: the session is live on that node, the session id is in
\* the headers.
C35_Witness ==
    /\ pc = "done" /\ InRequest /\ logins = 0
    /\ result = last_err /\ result.cls = "CvpRequestError"
    /\ session = "live" /\ "APP_SESSION_ID" \in headers
    /\ node_num + 1 < node_cnt /\ url_host = last_host

(* ------------------- the cursor of a live session ---------------------- *)

\* C36: on a node list without duplicates, whenever self.session is
\* live the node pool is about to give the node that follows the selected
\* one in the list, the first after the last.
C36_CursorAfterSelected ==
    (session = "live" /\ NoDuplicateNodes)
        => (node_cnt > 0 /\ url_host = nodes[SelectedIdx + 1])

\* The same, for a client whose latest connect() had a node list that
\* is not empty.
C36_NonEmptyNodeList ==
    (session = "live" /\ NoDuplicateNodes /\ node_cnt > 0)
        => url_host = nodes[SelectedIdx + 1]

(* ---------------- the nodes one request is sent to --------------------- *)

\* C37: on a node list without duplicates, the node-level attempts of
\* one request go to different nodes.
C37_NoNodeTwice ==
    NoDuplicateNodes =>
        \A i, j \in 1..Len(tried) : tried[i] = tried[j] => i = j

\* The same, for a client with a token, whose logins cannot fail.
C37_TokenMode ==
    (NoDuplicateNodes /\ api_token # None) =>
        \A i, j \in 1..Len(tried) : tried[i] = tried[j] => i = j

(* ------------- the session after the last node has failed -------------- *)

\* The transport attempt of this step is the one that ends the last
\* node-level attempt of a request, with a transport failure or a timeout.
LastNodeFails ==
    /\ pc = "send" /\ InRequest /\ node_num + 1 = node_cnt
    /\ pc' = "done"
    /\ last_err'.cls \in TransportErrors \cup TimeoutErrors

C38_Step ==
    /\ LastNodeFails =>
          /\ result' = last_err'
          /\ session' = session /\ session' # None
          /\ url_host' = url_host /\ url_host' = last_host'
    /\ (pc = "done" /\ pc' = "idle") =>
          (session' = session /\ url_host' = url_host)
    /\ (pc = "idle" /\ session # None /\ node_cnt > 0 /\ InRequest') =>
          /\ pc' = "send" /\ session' = session
          /\ full_url'.host = url_host
    /\ (op = "request" /\ session # None /\ session' = None) =>
          (pc = "login" /\ pc' # "send")

\* C38: a transport failure or a timeout that ends the last node-level
\* attempt of a request leaves self.session as it was, on the node of that
\* attempt; the next request is sent, to that node first, and does not
\* raise ValueError; within a get, post or delete self.session becomes
\* None only in a step whose login has failed.
C38_SessionOutlivesLastNode == [][C38_Step]_vars

\* A request on a pool of several nodes has failed over to the last
\* node-level attempt, which ended with a transport failure.
C38_Witness ==
    /\ op = "request" /\ pc = "done"
    /\ node_cnt > 1 /\ node_num + 1 = node_cnt
    /\ result.cls \in TransportErrors /\ result = last_err
    /\ session = "live" /\ url_host = last_host /\ session_host = last_host

(* -------------- a request that no node of the pool takes --------------- *)

\* Index (from 0) in self.nodes of the node the request went to first.
FirstIdx == CHOOSE k \in 0..(node_cnt - 1) : nodes[k + 1] = tried[1]

\* The node-level attempts so far went to the nodes in the cyclic order
\* of the list, from the node that was selected when the request began.
TriedInCyclicOrder ==
    /\ tried[1] = last_used_node
    /\ \A i \in 1..Len(tried) :
          tried[i] = nodes[((FirstIdx + i - 1) % node_cnt) + 1]

\* C39: with a token and a node list without duplicates, a request whose
\* every transport attempt ends with a transport failure makes one
\* attempt on each node, in the cyclic order of the list from the selected
\* node, no login of a failover fails, and after node_cnt attempts the
\* last error leaves the call.
C39_TokenModeEachNodeOnce ==
    (api_token # None /\ op = "request" /\ NoDuplicateNodes
       /\ sends > 0 /\ only_transport)
    => /\ TriedInCyclicOrder
       /\ Len(tried) = IF pc = "send" THEN sends + 1 ELSE sends
       /\ pc = "login" => (ctx = "failover" /\ sends < node_cnt)
       /\ pc = "send" => session = "live"
       /\ pc = "done" => /\ sends = node_cnt
                         /\ result = last_err
                         /\ result.cls \in TransportErrors

\* With a token, a request that began on the second of three nodes has
\* gone to the third and to the first, and has failed on each.
C39_Witness ==
    /\ api_token # None /\ op = "request" /\ pc = "done"
    /\ only_transport /\ sends = 3
    /\ nodes = <<"h1", "h2", "h3">>
    /\ tried = <<"h2", "h3", "h1">>

====
